---- MODULE Spec2Model ----
(***************************************************************************)
(* One Kademlia node: identifiers, XOR distance, the k-bucket routing      *)
(* table, the key-value store and the four request handlers, first as      *)
(* whole calls (Spec) and then as interleaved goroutines (SpecConc).       *)
(***************************************************************************)
EXTENDS Integers, Sequences, FiniteSets, TLC

VARIABLES
    started,   \* main has built node, routing table and storage
    kValue,    \* constants.kValue
    rt,        \* models.RoutingTable.Buckets, indexed from 0
    kv,        \* models.KeyValueStore.Store
    resp,      \* the request last answered, and its response
    pc,        \* goroutine -> position in its handler
    greq,      \* goroutine -> request it is serving
    gloc,      \* goroutine -> local variables of the running handler
    mu,        \* KeyValueStore.mu and the mu of package constants
    accepted   \* (key, value) payloads of STOREs that passed the proximity gate

vars == <<started, kValue, rt, kv, resp, pc, greq, gloc, mu, accepted>>

----------------------------------------------------------------------------
(* Bounds and program constants *)

MaxK == 2
NProcs == 2
HexLen == 40
DefaultK == 1
MaxPort == 65535

KValues == 1..MaxK
Procs == 1..NProcs

----------------------------------------------------------------------------
(* Identifiers are strings, modelled as sequences of one-character strings *)

LowerHex == {"a", "b", "c", "d", "e", "f"}
UpperHex == {"A", "B", "C", "D", "E", "F"}
DecDigits == {"0", "1", "2", "3", "4", "5", "6", "7", "8", "9"}

\* a sequence given by its elements, evaluated once
AsSeq(f) == <<>> \o f

UpperOf ==
    ("a" :> "A") @@ ("b" :> "B") @@ ("c" :> "C") @@ ("d" :> "D") @@ ("e" :> "E") @@
    ("f" :> "F") @@ ("g" :> "G") @@ ("x" :> "X")

\* strings.ToUpper
ToUpperChar(c) == IF c \in DOMAIN UpperOf THEN UpperOf[c] ELSE c

ToUpper(s) == AsSeq([i \in 1..Len(s) |-> ToUpperChar(s[i])])

DigitOf ==
    ("0" :> 0) @@ ("1" :> 1) @@ ("2" :> 2) @@ ("3" :> 3) @@ ("4" :> 4) @@ ("5" :> 5) @@
    ("6" :> 6) @@ ("7" :> 7) @@ ("8" :> 8) @@ ("9" :> 9) @@
    ("A" :> 10) @@ ("B" :> 11) @@ ("C" :> 12) @@ ("D" :> 13) @@ ("E" :> 14) @@ ("F" :> 15) @@
    ("a" :> 10) @@ ("b" :> 11) @@ ("c" :> 12) @@ ("d" :> 13) @@ ("e" :> 14) @@ ("f" :> 15)

\* the value of a digit character, 99 for a character that is no digit
DigitVal(c) == IF c \in DOMAIN DigitOf THEN DigitOf[c] ELSE 99

\* a character whose UTF-8 encoding takes two bytes, such as U+00E9
Wide == "U+00E9"

\* len(id): the number of bytes of the string
ByteLen(id) == Len(id) + Cardinality({i \in 1..Len(id) : id[i] = Wide})

\* a variant of the pattern that matches every string
MatchAny(id) == TRUE

\* config.Pattern.MatchString(id) for ^[a-fA-F0-9]{40}$
MatchString(id) ==
    /\ Len(id) = HexLen
    /\ \A i \in 1..Len(id) : id[i] \in (LowerHex \cup UpperHex \cup DecDigits)

\* ValidateID(id, HexadecimalValidator)
ValidateID(id) ==
    IF ByteLen(id) # HexLen THEN "invalid length"
    ELSE IF ~MatchString(id) THEN "invalid format"
         ELSE "ok"

----------------------------------------------------------------------------
(* math/big values: a magnitude is a big-endian byte sequence without      *)
(* leading zero bytes; <<>> is zero                                         *)

Nil == <<256>>

RECURSIVE FirstNonZero(_, _)
FirstNonZero(b, i) ==
    IF i > Len(b) THEN i
    ELSE IF b[i] # 0 THEN i ELSE FirstNonZero(b, i + 1)

StripZeros(b) ==
    LET f == FirstNonZero(b, 1)
    IN  AsSeq([i \in 1..(Len(b) - f + 1) |-> b[f + i - 1]])

\* big.Int.SetString(s, 16): optional sign, then one or more hex digits
SetStringOk(s) ==
    LET signed == Len(s) > 0 /\ s[1] \in {"+", "-"}
        from == IF signed THEN 2 ELSE 1
    IN  /\ Len(s) >= from
        /\ \A i \in from..Len(s) : DigitVal(s[i]) < 16

\* big.Int.Bytes(): the magnitude, two hex digits per byte, sign dropped
BytesOfHex(s) ==
    LET signed == Len(s) > 0 /\ s[1] \in {"+", "-"}
        off == IF signed THEN 1 ELSE 0
        n == Len(s) - off
        odd == n % 2
        nb == (n + odd) \div 2
        nib(j) == IF j < 1 THEN 0 ELSE DigitVal(s[off + j])
    IN  StripZeros([i \in 1..nb |-> 16 * nib(2 * i - 1 - odd) + nib(2 * i - odd)])

decodeHex(s) ==
    LET u == ToUpper(s)
    IN  IF SetStringOk(u) THEN BytesOfHex(u) ELSE Nil

SetBytes(b) == StripZeros(b)

RECURSIVE XorNat(_, _)
XorNat(a, b) ==
    IF a = 0 THEN b
    ELSE IF b = 0 THEN a
    ELSE ((a + b) % 2) + 2 * XorNat(a \div 2, b \div 2)

\* a variant of Xor that returns its first operand
BigXorLeft(x, y) == x

BigXor(x, y) ==
    LET n == IF Len(x) > Len(y) THEN Len(x) ELSE Len(y)
        at(z, i) == IF i + Len(z) - n < 1 THEN 0 ELSE z[i + Len(z) - n]
    IN  StripZeros([i \in 1..n |-> XorNat(at(x, i), at(y, i))])

\* a nil *big.Int from decodeHex makes result.Bytes() panic
calculateXORDistance(id1, id2) ==
    LET bytes1 == decodeHex(id1)
        bytes2 == decodeHex(id2)
    IN  IF bytes1 = Nil \/ bytes2 = Nil THEN Nil
        ELSE BigXor(SetBytes(bytes1), SetBytes(bytes2))

RECURSIVE NatBitLen(_)
NatBitLen(n) == IF n = 0 THEN 0 ELSE 1 + NatBitLen(n \div 2)

BitLen(x) == IF Len(x) = 0 THEN 0 ELSE 8 * (Len(x) - 1) + NatBitLen(x[1])

\* a variant without the - 1
BitLenIndex(distance) == BitLen(distance)

getBucketIndex(distance) == BitLen(distance) - 1

RECURSIVE CmpFrom(_, _, _)
CmpFrom(x, y, i) ==
    IF i > Len(x) THEN 0
    ELSE IF x[i] < y[i] THEN -1
    ELSE IF x[i] > y[i] THEN 1
    ELSE CmpFrom(x, y, i + 1)

\* big.Int.Cmp on magnitudes
BigCmp(x, y) ==
    IF Len(x) < Len(y) THEN -1
    ELSE IF Len(x) > Len(y) THEN 1
    ELSE CmpFrom(x, y, 1)

----------------------------------------------------------------------------
(* The identifiers of the model *)

MkID(hi, lo) == <<hi>> \o [i \in 1..(HexLen - 2) |-> "0"] \o <<lo>>

LocalID == MkID("a", "1")

\* three ids that share bucket 2 with respect to LocalID, and one in bucket 159
PeerIDs == {MkID("a", "4"), MkID("a", "5"), MkID("a", "6"), MkID("2", "1")}

Key1 == LocalID
Key2 == MkID("a", "7")
Keys == {Key1, Key2}
BadKeys == {<<>>, <<"a", "b">>, MkID("g", "1")}

\* every identifier a request of the model carries
ModelIDs == {LocalID} \cup PeerIDs \cup Keys \cup {id \in BadKeys : Len(id) > 0}

\* ValidateID tabulated once for the identifiers of the model
ValidateTable == [id \in ModelIDs |-> ValidateID(id)] @@ <<>>

\* a variant of the validation that accepts every id
ValidateAlwaysOk(id) == "ok"

ValidateIDOf(id) == IF id \in DOMAIN ValidateTable THEN ValidateTable[id] ELSE ValidateID(id)

\* calculateXORDistance tabulated once for the identifiers of the model
DistanceTable == [p \in ModelIDs \X ModelIDs |-> calculateXORDistance(p[1], p[2])] @@ <<>>

XORDistance(id1, id2) ==
    IF <<id1, id2>> \in DOMAIN DistanceTable THEN DistanceTable[<<id1, id2>>]
    ELSE calculateXORDistance(id1, id2)

----------------------------------------------------------------------------
(* Routing table *)

\* a variant that gives every bucket the default capacity
NewRoutingTableDefaultK(nodeID, k) ==
    [i \in 0..(Len(nodeID) * 4 - 1) |-> [Nodes |-> <<>>, MaxSize |-> DefaultK]]

NewRoutingTable(nodeID, k) ==
    [i \in 0..(Len(nodeID) * 4 - 1) |-> [Nodes |-> <<>>, MaxSize |-> k]]

\* a variant of the duplicate scan that never matches
HasIDNever(nodes, id) == FALSE

\* the loop over bucket.Nodes comparing n.ID with target.ID
HasID(nodes, id) == \E i \in 1..Len(nodes) : nodes[i].ID = id

\* a variant that drops the newest entry instead of the oldest
DropLast(nodes) == AsSeq([i \in 1..(Len(nodes) - 1) |-> nodes[i]])

\* bucket.Nodes[1:] panics on an empty slice
DropHead(nodes) == AsSeq([i \in 1..(Len(nodes) - 1) |-> nodes[i + 1]])

NoNode == [ID |-> <<>>, IP |-> "", Port |-> 0]

\* The result of one call: either a panic that leaves the table as it was,
\* or the table after the call, with the entry the call dropped (if any).
AddNodeToRoutingTable(table, target, localID) ==
    LET distance == XORDistance(localID, target.ID)
        bucketIndex == getBucketIndex(distance)
    IN  IF distance = Nil \/ bucketIndex \notin DOMAIN table
        THEN [panic |-> TRUE, rt |-> table, evicted |-> NoNode]
        ELSE LET bucket == table[bucketIndex]
             IN  IF HasID(bucket.Nodes, target.ID)
                 THEN [panic |-> FALSE, rt |-> table, evicted |-> NoNode]
                 ELSE IF Len(bucket.Nodes) < bucket.MaxSize
                 THEN [panic |-> FALSE, evicted |-> NoNode,
                       rt |-> [table EXCEPT ![bucketIndex].Nodes = Append(bucket.Nodes, target)]]
                 ELSE IF Len(bucket.Nodes) = 0
                 THEN [panic |-> TRUE, rt |-> table, evicted |-> NoNode]
                 ELSE [panic |-> FALSE, evicted |-> bucket.Nodes[1],
                       rt |-> [table EXCEPT ![bucketIndex].Nodes = Append(DropHead(bucket.Nodes), target)]]

\* the nodes of the buckets with index in S, in ascending bucket order
RECURSIVE CollectNodes(_, _)
CollectNodes(table, S) ==
    IF S = {} THEN <<>>
    ELSE LET i == CHOOSE m \in S : \A x \in S : m <= x
         IN  table[i].Nodes \o CollectNodes(table, S \ {i})

NonEmptyBuckets(table) == {i \in DOMAIN table : Len(table[i].Nodes) > 0}

\* the distances of the collected nodes to the query
DistancesTo(nodes, queryID) == AsSeq([i \in 1..Len(nodes) |-> XORDistance(queryID, nodes[i].ID)])

\* for every position, the number of positions at a smaller distance
RanksOf(d) == AsSeq([i \in 1..Len(d) |-> Cardinality({j \in 1..Len(d) : BigCmp(d[j], d[i]) < 0})])

\* the orders of the nodes that are ascending in the ranks
OrdersBy(nodes, less) ==
    LET n == Len(nodes)
    IN  IF \A i, j \in 1..n : i # j => less[i] # less[j]
        THEN {AsSeq([r \in 1..n |-> nodes[CHOOSE i \in 1..n : less[i] = r - 1]])}
        ELSE {AsSeq([r \in 1..n |-> nodes[p[r]]]) :
                p \in {q \in Permutations(1..n) :
                         \A r \in 1..(n - 1) : less[q[r]] <= less[q[r + 1]]}}

\* Every order sort.Slice may leave the collected nodes in: ascending in
\* distance, entries at equal distance in any order (the sort is not stable).
SortedOrders(nodes, queryID) ==
    UNION {UNION {OrdersBy(nodes, less) : less \in {RanksOf(d)}} : d \in {DistancesTo(nodes, queryID)}}

\* a variant without the i < k bound of the copy loop
FirstAll(s, k) == s

FirstK(s, k) ==
    LET m == IF Len(s) < k THEN Len(s) ELSE k
    IN  AsSeq([i \in 1..m |-> s[i]])

\* The set of results FindClosestNodes may return for this table and query.
FindClosestNodes(table, queryID, k) ==
    {FirstK(s, k) : s \in SortedOrders(CollectNodes(table, NonEmptyBuckets(table)), queryID)}

----------------------------------------------------------------------------
(* Key-value store *)

NewKeyValueStore == [x \in {} |-> ""]

\* a variant of the map read that never finds the key
LookupMissing(store, key) == [found |-> FALSE, value |-> ""]

\* value, found := storage.Store[key]
Lookup(store, key) ==
    IF key \in DOMAIN store THEN [found |-> TRUE, value |-> store[key]]
    ELSE [found |-> FALSE, value |-> ""]

\* a variant of the map write that keeps the value a key already has
KeepFirst(store, key, value) ==
    [x \in (DOMAIN store) \cup {key} |-> IF x \in DOMAIN store THEN store[x] ELSE value]

\* kv.Store[key] = value
KVSet(store, key, value) ==
    [x \in (DOMAIN store) \cup {key} |-> IF x = key THEN value ELSE store[x]]

\* sync.RWMutex: the goroutine holding the write lock (0 if none) and the
\* goroutines holding the read lock, for KeyValueStore.mu (writer, readers)
\* and for the mu of package constants (kwriter, kreaders)
Unlocked == [writer |-> 0, readers |-> {}, kwriter |-> 0, kreaders |-> {}]

\* a variant of the write lock that never waits
LockableAlways(m) == TRUE

\* Lock proceeds when nobody holds the mutex, RLock when no writer holds it
Lockable(m) == m.writer = 0 /\ m.readers = {}
RLockable(m) == m.writer = 0
KLockable(m) == m.kwriter = 0 /\ m.kreaders = {}
KRLockable(m) == m.kwriter = 0

\* a variant of GetK that returns without its deferred RUnlock
KRUnlockForgotten(m, p) == m

\* RUnlock by goroutine p
RUnlock(m, p) == [m EXCEPT !.readers = @ \ {p}]
KRUnlock(m, p) == [m EXCEPT !.kreaders = @ \ {p}]

----------------------------------------------------------------------------
(* Conversions used by the handlers *)

RECURSIVE DecimalValue(_, _, _)
DecimalValue(s, i, acc) ==
    IF i > Len(s) THEN acc ELSE DecimalValue(s, i + 1, 10 * acc + DigitVal(s[i]))

\* strconv.Atoi: optional sign, then one or more decimal digits
Atoi(s) ==
    LET signed == Len(s) > 0 /\ s[1] \in {"+", "-"}
        from == IF signed THEN 2 ELSE 1
    IN  IF Len(s) < from \/ \E i \in from..Len(s) : s[i] \notin DecDigits
        THEN [err |-> TRUE, val |-> 0]
        ELSE [err |-> FALSE,
              val |-> IF signed /\ s[1] = "-" THEN 0 - DecimalValue(s, from, 0)
                      ELSE DecimalValue(s, from, 0)]

\* a variant that keeps the port in the host
SplitHostPortWhole(addr) == [err |-> FALSE, host |-> addr]

\* net.SplitHostPort on the transport peer addresses of the model
SplitHostPort(addr) ==
    CASE addr = "10.0.0.2:5555" -> [err |-> FALSE, host |-> "10.0.0.2"]
      [] addr = "10.0.0.3:6666" -> [err |-> FALSE, host |-> "10.0.0.3"]
      [] OTHER -> [err |-> TRUE, host |-> ""]

----------------------------------------------------------------------------
(* The requests of the model *)

GoodPort == <<"9", "0", "0", "0">>
GoodAddr == "10.0.0.2:5555"

PingRequests ==
    {[id |-> id, port |-> GoodPort, remote |-> GoodAddr] : id \in PeerIDs \cup {LocalID}}
    \cup {[id |-> <<>>, port |-> <<>>, remote |-> GoodAddr],
          [id |-> MkID("a", "4"), port |-> <<"0">>, remote |-> GoodAddr],
          [id |-> MkID("a", "4"), port |-> <<"a">>, remote |-> GoodAddr],
          [id |-> MkID("a", "4"), port |-> GoodPort, remote |-> "10.0.0.2"],
          [id |-> MkID("a", "4"), port |-> <<>>, remote |-> GoodAddr],
          [id |-> <<>>, port |-> GoodPort, remote |-> GoodAddr],
          [id |-> MkID("g", "1"), port |-> GoodPort, remote |-> GoodAddr]}

StoreRequests ==
    {[method |-> "POST", json |-> TRUE, key |-> key, value |-> "v1"] : key \in Keys}
    \cup {[method |-> "POST", json |-> TRUE, key |-> Key1, value |-> "v2"],
          [method |-> "GET", json |-> TRUE, key |-> Key1, value |-> "v1"],
          [method |-> "POST", json |-> FALSE, key |-> <<>>, value |-> ""],
          [method |-> "POST", json |-> TRUE, key |-> Key1, value |-> ""],
          [method |-> "POST", json |-> TRUE, key |-> MkID("g", "1"), value |-> "v1"]}

SetRequests ==
    {[key |-> Key1, value |-> "v1"], [key |-> Key1, value |-> "v2"]}

Contact(id) == [ID |-> id, IP |-> "10.0.0.2", Port |-> 9000]
selfNode == [ID |-> LocalID, IP |-> "127.0.0.1", Port |-> 8080]
TestNodes == {Contact(id) : id \in PeerIDs} \cup {selfNode}

NoReply == [err |-> FALSE, status |-> 0, json |-> TRUE, node_id |-> <<>>]

NoReq == [id |-> <<>>, port |-> <<>>, remote |-> "", method |-> "", json |-> TRUE,
          value |-> "", node |-> NoNode, evicted |-> NoNode, k |-> 0,
          addr |-> <<>>, reply |-> NoReply, sent |-> FALSE, again |-> FALSE,
          all |-> NewKeyValueStore]

\* what a whole call leaves for the caller: the request, the status code and
\* the body (a contact list, a text, the node_id of a pong); a panic leaves
\* status 0
Response(op, req, status, kind, nodes, text) ==
    [op |-> op, req |-> req, status |-> status, kind |-> kind, nodes |-> nodes, text |-> text,
     node_id |-> <<>>]

NoResp == Response("none", NoReq, 0, "none", <<>>, "")

GoIdle == [p \in Procs |-> "idle"]
NoGReq == [p \in Procs |-> NoReq]
NoLoc == [bucketIndex |-> 0, nodes |-> <<>>]
NoGLoc == [p \in Procs |-> NoLoc]

Init ==
    /\ started = FALSE
    /\ kValue = DefaultK
    /\ rt = <<>>
    /\ kv = NewKeyValueStore
    /\ resp = NoResp
    /\ pc = GoIdle
    /\ greq = NoGReq
    /\ gloc = NoGLoc
    /\ mu = Unlocked
    /\ accepted = {}

goVars == <<pc, greq, gloc, mu, accepted>>

----------------------------------------------------------------------------
(* Whole calls *)

\* constants.SetK
SetK(value) ==
    /\ kValue' = value
    /\ resp' = Response("SetK", [NoReq EXCEPT !.k = value], 0, "none", <<>>, "")
    /\ UNCHANGED <<started, rt, kv, goVars>>

\* main: InitializeNode, NewRoutingTable, NewKeyValueStore
NewNode ==
    /\ ~started
    /\ started' = TRUE
    /\ rt' = NewRoutingTable(LocalID, kValue)
    /\ kv' = NewKeyValueStore
    /\ resp' = Response("NewNode", NoReq, 0, "none", <<>>, "")
    /\ UNCHANGED <<kValue, goVars>>

\* a direct call AddNodeToRoutingTable(routingTable, target, node.ID), as main
\* makes with the node itself and the tests make with other nodes
AddNode(target) ==
    /\ started
    /\ LET r == AddNodeToRoutingTable(rt, target, LocalID)
       IN  /\ rt' = r.rt
           /\ resp' = Response("Add", [NoReq EXCEPT !.node = target, !.id = target.ID, !.evicted = r.evicted], 0,
                               IF r.panic THEN "panic" ELSE "returned", <<>>, "")
    /\ UNCHANGED <<started, kValue, kv, goVars>>

\* a direct call KeyValueStore.Set / StoreKeyValue
StoreKeyValue(key, value) ==
    /\ started
    /\ kv' = KVSet(kv, key, value)
    /\ resp' = Response("Set", [NoReq EXCEPT !.id = key, !.value = value], 0, "returned", <<>>, "")
    /\ UNCHANGED <<started, kValue, rt, goVars>>

\* a variant of the pong body without the node_id
PongAnonymous(op, req) == Response(op, req, 200, "pong", <<>>, "pong")

\* {"message": "pong", "node_id": node.ID}
Pong(op, req) == [Response(op, req, 200, "pong", <<>>, "pong") EXCEPT !.node_id = LocalID]
Panicked(op, req) == Response(op, req, 0, "panic", <<>>, "")
HttpError(op, req, status, text) == Response(op, req, status, "error", <<>>, text)

\* fmt.Sprintf("Invalid ID format: %v", err) and its like for keys
InvalidIDFormat ==
    ("invalid length" :> "Invalid ID format: invalid length")
    @@ ("invalid format" :> "Invalid ID format: invalid format")
InvalidKeyFormat ==
    ("invalid length" :> "Invalid Key format: invalid length")
    @@ ("invalid format" :> "Invalid Key format: invalid format")

\* PingHandler, GET /ping?id=..&port=.. from the peer at remote
PingHandler(id, port, remote) ==
    /\ started
    /\ LET req == [NoReq EXCEPT !.id = id, !.port = port, !.remote = remote]
           pingerUDPPort == Atoi(port)
           split == SplitHostPort(remote)
       IN  IF id # <<>> /\ port # <<>>
           THEN IF pingerUDPPort.err \/ pingerUDPPort.val <= 0 \/ pingerUDPPort.val > MaxPort
                THEN /\ rt' = rt
                     /\ resp' = HttpError("PING", req, 400, "Invalid UDP port provided")
                ELSE IF split.err
                THEN /\ rt' = rt
                     /\ resp' = HttpError("PING", req, 500, "Failed to extract IP address")
                ELSE LET pingerNode == [ID |-> id, IP |-> split.host, Port |-> pingerUDPPort.val]
                         r == AddNodeToRoutingTable(rt, pingerNode, LocalID)
                         req2 == [req EXCEPT !.node = pingerNode, !.evicted = r.evicted]
                     IN  /\ rt' = r.rt
                         /\ resp' = IF r.panic THEN Panicked("PING", req2) ELSE Pong("PING", req2)
           ELSE /\ rt' = rt
                /\ resp' = Pong("PING", req)
    /\ UNCHANGED <<started, kValue, kv, goVars>>

\* FindNodeHandler, GET /find_node?id=..
FindNodeHandler(id) ==
    /\ started
    /\ LET req == [NoReq EXCEPT !.id = id]
       IN  IF ValidateIDOf(id) # "ok"
           THEN resp' = HttpError("FIND_NODE", req, 400, InvalidIDFormat[ValidateIDOf(id)])
           ELSE \E closestNodes \in FindClosestNodes(rt, id, kValue) :
                    resp' = Response("FIND_NODE", req, 200, "nodes", closestNodes, "")
    /\ UNCHANGED <<started, kValue, rt, kv, goVars>>

\* a variant of the refusal branch without its return: storage.Set is reached
FallThrough(store, key, value) == [k \in DOMAIN store \cup {key} |-> IF k = key THEN value ELSE store[k]]

\* the refusal branch of StoreHandler returns before storage.Set
Refused(store, key, value) == store

IsClosest(closestNodes) == \E i \in 1..Len(closestNodes) : closestNodes[i].ID = LocalID

\* StoreHandler, /store with a JSON body {key, value}
StoreHandler(method, json, key, value) ==
    /\ started
    /\ LET req == [NoReq EXCEPT !.method = method, !.json = json, !.id = key, !.value = value]
       IN  IF method # "POST"
           THEN /\ kv' = kv
                /\ resp' = HttpError("STORE", req, 405, "Invalid request method")
           ELSE IF ~json \/ key = <<>> \/ value = ""
           THEN /\ kv' = kv
                /\ resp' = HttpError("STORE", req, 400, "Invalid JSON payload")
           ELSE IF ValidateIDOf(key) # "ok"
           THEN /\ kv' = kv
                /\ resp' = HttpError("STORE", req, 400, InvalidKeyFormat[ValidateIDOf(key)])
           ELSE \E closestNodes \in FindClosestNodes(rt, key, kValue) :
                    IF ~IsClosest(closestNodes)
                    THEN /\ kv' = Refused(kv, key, value)
                         /\ resp' = Response("STORE", req, 200, "nodes", closestNodes, "")
                    ELSE /\ kv' = KVSet(kv, key, value)
                         /\ resp' = Response("STORE", req, 201, "stored", <<>>, value)
    /\ UNCHANGED <<started, kValue, rt, goVars>>

\* FindValueHandler, GET /find_value?key=..
FindValueHandler(key) ==
    /\ started
    /\ LET req == [NoReq EXCEPT !.id = key]
       IN  IF key = <<>>
           THEN resp' = HttpError("FIND_VALUE", req, 400, "Missing 'key' parameter")
           ELSE IF ValidateIDOf(key) # "ok"
           THEN resp' = HttpError("FIND_VALUE", req, 400, InvalidKeyFormat[ValidateIDOf(key)])
           ELSE IF Lookup(kv, key).found
           THEN resp' = Response("FIND_VALUE", req, 200, "value", <<>>, Lookup(kv, key).value)
           ELSE \E closestNodes \in FindClosestNodes(rt, key, kValue) :
                    resp' = Response("FIND_VALUE", req, 200, "nodes", closestNodes, "")
    /\ UNCHANGED <<started, kValue, rt, kv, goVars>>

Next ==
    \/ \E value \in KValues : SetK(value)
    \/ NewNode
    \/ \E target \in TestNodes : AddNode(target)
    \/ \E r \in SetRequests : StoreKeyValue(r.key, r.value)
    \/ \E r \in PingRequests : PingHandler(r.id, r.port, r.remote)
    \/ \E id \in Keys \cup BadKeys : FindNodeHandler(id)
    \/ \E r \in StoreRequests : StoreHandler(r.method, r.json, r.key, r.value)
    \/ \E key \in Keys \cup BadKeys : FindValueHandler(key)

Spec == Init /\ [][Next]_vars

----------------------------------------------------------------------------
(* Joining: JoinNetwork pings the bootstrap peer and adds it.  An address  *)
(* is a sequence of tokens, each ":" or a string without a colon.          *)

\* the characters of the port strings of the model
CharsOf ==
    ("" :> <<>>) @@ ("8080" :> <<"8", "0", "8", "0">>)
    @@ ("99999" :> <<"9", "9", "9", "9", "9">>)
    @@ ("invalid" :> <<"i", "n", "v", "a", "l", "i", "d">>)
    @@ ("port" :> <<"p", "o", "r", "t">>)

\* the positions of the separators of an address
Colons(addr) == {i \in 1..Len(addr) : addr[i] = ":"}

\* strings.Split(bootstrapAddr, ":"): one part more than there are colons,
\* each the text between two neighbouring colons
Split(addr) ==
    AsSeq([j \in 1..(Cardinality(Colons(addr)) + 1) |->
        LET between == {i \in 1..Len(addr) :
                           /\ addr[i] # ":"
                           /\ Cardinality({c \in Colons(addr) : c < i}) = j - 1}
        IN  IF between = {} THEN "" ELSE addr[CHOOSE i \in between : TRUE]])

\* a variant of the test on the reply that forgets the status code
GetFailedOnErrOnly(reply) == reply.err

\* err != nil || resp.StatusCode != http.StatusOK
GetFailed(reply) == reply.err \/ reply.status # 200

\* http.Get("http://<bootstrapAddr>/ping"): dialling a port outside 1..65535
\* fails before anything is sent; otherwise the peer's reply decides
HttpGet(port, reply) ==
    IF port < 1 \/ port > MaxPort
    THEN [sent |-> FALSE, reply |-> [reply EXCEPT !.err = TRUE]]
    ELSE [sent |-> TRUE, reply |-> reply]

JoinResult(kind, text, table, sent, node, evicted) ==
    [kind |-> kind, text |-> text, rt |-> table, sent |-> sent, node |-> node, evicted |-> evicted]

\* a variant that returns nil without adding the bootstrap node
JoinAddSkipped(table, bootstrapNode, sent, r) ==
    JoinResult("returned", "", table, sent, bootstrapNode, NoNode)

\* the add of the bootstrap node and the return of nil
JoinAdd(table, bootstrapNode, sent, r) ==
    JoinResult(IF r.panic THEN "panic" ELSE "returned", "", r.rt, sent, bootstrapNode, r.evicted)

\* the test of the reply, the decoding of its body and the test of NodeID
JoinReply(table, localID, ip, port, get) ==
    IF GetFailed(get.reply)
    THEN JoinResult("error", "failed to join network", table, get.sent, NoNode, NoNode)
    ELSE IF ~get.reply.json
    THEN JoinResult("error", "failed to decode response", table, get.sent, NoNode, NoNode)
    ELSE IF get.reply.node_id = <<>>
    THEN JoinResult("error", "missing node ID", table, get.sent, NoNode, NoNode)
    ELSE JoinAdd(table, [ID |-> get.reply.node_id, IP |-> ip, Port |-> port], get.sent,
                 AddNodeToRoutingTable(table, [ID |-> get.reply.node_id, IP |-> ip, Port |-> port],
                                       localID))

\* the test of the port and the ping
JoinPort(table, localID, ip, port, reply) ==
    IF port.err
    THEN JoinResult("error", "invalid port in bootstrap address", table, FALSE, NoNode, NoNode)
    ELSE JoinReply(table, localID, ip, port.val, HttpGet(port.val, reply))

\* the test of the number of parts, ip and port
JoinParts(table, localID, parts, reply) ==
    IF Len(parts) # 2
    THEN JoinResult("error", "invalid bootstrap address format", table, FALSE, NoNode, NoNode)
    ELSE JoinPort(table, localID, parts[1], Atoi(CharsOf[parts[2]]), reply)

JoinNetwork(table, localID, bootstrapAddr, reply) ==
    JoinParts(table, localID, Split(bootstrapAddr), reply)

GoodBoot == <<"127.0.0.1", ":", "8080">>
BadBoots ==
    {<<>>, <<"invalid">>, <<"invalid", ":", "port">>, <<"127.0.0.1", ":", "invalid">>,
     <<":", "8080">>, <<"127.0.0.1", ":">>, <<"nonexistent", ":", "99999">>}

PongOf(id) == [err |-> FALSE, status |-> 200, json |-> TRUE, node_id |-> id]
TransportError == [err |-> TRUE, status |-> 0, json |-> TRUE, node_id |-> <<>>]
ServerError == [err |-> FALSE, status |-> 500, json |-> TRUE, node_id |-> MkID("a", "4")]
BadJson == [err |-> FALSE, status |-> 200, json |-> FALSE, node_id |-> <<>>]

JoinRequests ==
    {[addr |-> GoodBoot, reply |-> reply] :
        reply \in {PongOf(MkID("a", "4")), PongOf(<<>>), PongOf(<<"a", "b">>), PongOf(MkID("g", "1")),
                   PongOf(LocalID), TransportError, ServerError, BadJson}}
    \cup {[addr |-> addr, reply |-> PongOf(MkID("a", "4"))] : addr \in BadBoots}

JoinPingRequests ==
    {[id |-> id, port |-> GoodPort, remote |-> GoodAddr] : id \in {MkID("a", "4"), MkID("a", "5")}}
    \cup {[id |-> <<>>, port |-> <<>>, remote |-> GoodAddr]}

\* a call JoinNetwork(node, routingTable, bootstrapAddr), as main makes; again
\* tells that it repeats the call answered last, which had returned nil
Join(bootstrapAddr, reply) ==
    /\ started
    /\ \E r \in {JoinNetwork(rt, LocalID, bootstrapAddr, reply)} :
           /\ rt' = r.rt
           /\ resp' = Response("Join",
                               [NoReq EXCEPT !.addr = bootstrapAddr, !.reply = reply, !.sent = r.sent,
                                             !.node = r.node, !.evicted = r.evicted,
                                             !.again = /\ resp.op = "Join"
                                                       /\ resp.kind = "returned"
                                                       /\ resp.req.addr = bootstrapAddr
                                                       /\ resp.req.reply = reply],
                               0, r.kind, <<>>, r.text)
    /\ UNCHANGED <<started, kValue, kv, goVars>>

NextJoin ==
    \/ \E value \in KValues : SetK(value)
    \/ NewNode
    \/ \E r \in JoinRequests : Join(r.addr, r.reply)
    \/ \E r \in JoinPingRequests : PingHandler(r.id, r.port, r.remote)

SpecJoin == Init /\ [][NextJoin]_vars

----------------------------------------------------------------------------
(* The node as its peers see it: sequences of requests to the four         *)
(* handlers and of joins, together with the direct Set calls of its owner. *)

RpcPingRequests ==
    {[id |-> id, port |-> GoodPort, remote |-> GoodAddr] :
        id \in {MkID("a", "4"), MkID("a", "5"), <<"a", "b">>, MkID("g", "1"), LocalID}}
    \cup {[id |-> <<>>, port |-> <<>>, remote |-> GoodAddr],
          [id |-> MkID("a", "4"), port |-> <<"0">>, remote |-> GoodAddr]}

RpcStoreRequests ==
    {[method |-> "POST", json |-> TRUE, key |-> key, value |-> "v1"] :
        key \in Keys \cup BadKeys}
    \cup {[method |-> "POST", json |-> TRUE, key |-> Key1, value |-> ""],
          [method |-> "POST", json |-> FALSE, key |-> <<>>, value |-> ""],
          [method |-> "GET", json |-> TRUE, key |-> Key1, value |-> "v1"]}

RpcJoinRequests ==
    {[addr |-> GoodBoot, reply |-> reply] : reply \in {PongOf(MkID("a", "4")), TransportError}}

NextRpc ==
    \/ \E value \in KValues : SetK(value)
    \/ NewNode
    \/ \E r \in SetRequests : StoreKeyValue(r.key, r.value)
    \/ \E r \in RpcPingRequests : PingHandler(r.id, r.port, r.remote)
    \/ \E id \in Keys \cup BadKeys : FindNodeHandler(id)
    \/ \E r \in RpcStoreRequests : StoreHandler(r.method, r.json, r.key, r.value)
    \/ \E key \in Keys \cup BadKeys : FindValueHandler(key)
    \/ \E r \in RpcJoinRequests : Join(r.addr, r.reply)

SpecRpc == Init /\ [][NextRpc]_vars

----------------------------------------------------------------------------
(* The node as the bootstrap peer of joins: a peer with a fresh routing    *)
(* table calls JoinNetwork with the address of the node; the node serves   *)
(* the GET of that call, and the peer goes on with the answer.             *)

\* a variant of the url that carries the id and the port of the joiner
JoinQuerySelf(bootstrapAddr, joinerID) == [id |-> joinerID, port |-> GoodPort]

\* the query of the url "http://<bootstrapAddr>/ping": no id, no port
JoinQuery(bootstrapAddr, joinerID) == [id |-> <<>>, port |-> <<>>]

\* the transport address the GET of a joiner comes from
JoinerAddr == "10.0.0.3:6666"

JoinerIDs == {MkID("a", "4"), MkID("a", "6")}

\* http.Get(url) of the joiner, served by the PingHandler of the node
JoinPinged(joinerID) ==
    PingHandler(JoinQuery(GoodBoot, joinerID).id, JoinQuery(GoodBoot, joinerID).port, JoinerAddr)

\* the reply the joiner reads off the response of the node
ReplyOf(r) == [err |-> FALSE, status |-> r.status, json |-> TRUE, node_id |-> r.node_id]

\* JoinNetwork of the joiner from the reply on; nodes lists its routing table
JoinAnswered(joinerID) ==
    /\ started
    /\ resp.op = "PING"
    /\ resp.kind = "pong"
    /\ resp.req.remote = JoinerAddr
    /\ \E r \in {JoinNetwork(NewRoutingTable(joinerID, kValue), joinerID, GoodBoot, ReplyOf(resp))} :
           resp' = Response("Join",
                            [NoReq EXCEPT !.id = joinerID, !.addr = GoodBoot, !.reply = ReplyOf(resp),
                                          !.sent = r.sent, !.node = r.node, !.evicted = r.evicted],
                            0, r.kind, CollectNodes(r.rt, NonEmptyBuckets(r.rt)), r.text)
    /\ UNCHANGED <<started, kValue, rt, kv, goVars>>

NextBoot ==
    \/ \E value \in KValues : SetK(value)
    \/ NewNode
    \/ \E r \in SetRequests : StoreKeyValue(r.key, r.value)
    \/ \E r \in JoinPingRequests : PingHandler(r.id, r.port, r.remote)
    \/ \E joinerID \in JoinerIDs : JoinPinged(joinerID)
    \/ \E joinerID \in JoinerIDs : JoinAnswered(joinerID)

SpecBoot == Init /\ [][NextBoot]_vars

----------------------------------------------------------------------------
(* Peers that spell one id in two ways: ValidateID accepts the hex digits  *)
(* a-f in either case, and two spellings are different strings.            *)

\* a000..04, the same 160-bit value as A000..04, and a000..05
AliasIDs == {MkID("a", "4"), MkID("A", "4"), MkID("a", "5")}

AliasPingRequests ==
    {[id |-> id, port |-> GoodPort, remote |-> GoodAddr] : id \in AliasIDs}

AliasJoinRequests ==
    {[addr |-> GoodBoot, reply |-> PongOf(id)] : id \in {MkID("a", "4"), MkID("A", "4")}}

AliasTargets == {MkID("a", "4"), Key2}

NextAlias ==
    \/ \E value \in KValues : SetK(value)
    \/ NewNode
    \/ \E r \in AliasPingRequests : PingHandler(r.id, r.port, r.remote)
    \/ \E r \in AliasJoinRequests : Join(r.addr, r.reply)
    \/ \E id \in AliasTargets : FindNodeHandler(id)

SpecAlias == Init /\ [][NextAlias]_vars

----------------------------------------------------------------------------
(* The functions on identifiers, each applied to inputs drawn from a       *)
(* family of strings: a run of one character with one position replaced.   *)

\* the string of n characters fill with c at position pos
Patched(n, fill, pos, c) == AsSeq([i \in 1..n |-> IF i = pos THEN c ELSE fill])

ValidateLens == {1, 2, 38, 39, 40, 41}
ValidateChars == {"0", "9", "a", "f", "A", "F", "g", "G", " ", "-", Wide}
ValidateInputs ==
    {<<>>} \cup {Patched(n, fill, pos, c) :
                    n \in ValidateLens, fill \in {"0", "a", "F"}, pos \in {1, 2, 40}, c \in ValidateChars}

\* the functions are pure: a behaviour makes one call, on one input
Fresh == resp = NoResp

\* a call ValidateID(id, HexadecimalValidator)
Validate(id) ==
    /\ Fresh
    /\ resp' = Response("ValidateID", [NoReq EXCEPT !.id = id], 0, ValidateID(id), <<>>, "")
    /\ UNCHANGED <<started, kValue, rt, kv, goVars>>

\* ids of 40 hex digits, all 0 but one, in either case
DistanceIDs ==
    {Patched(HexLen, "0", pos, c) : pos \in {1, 2, 39, 40}, c \in {"0", "1", "8", "9", "a", "A", "f"}}

\* calls calculateXORDistance(a, b), (b, a) and (a, a)
Distance(a, b) ==
    /\ Fresh
    /\ resp' = Response("Distance", [NoReq EXCEPT !.id = a, !.node = Contact(b)], 0, "returned",
                        <<calculateXORDistance(a, b), calculateXORDistance(b, a),
                          calculateXORDistance(a, a)>>, "")
    /\ UNCHANGED <<started, kValue, rt, kv, goVars>>

\* NewRoutingTable(a) followed by AddNodeToRoutingTable(rt, b, a)
FreshAdd(a, b) ==
    /\ Fresh
    /\ \E r \in {AddNodeToRoutingTable(NewRoutingTable(a, kValue), Contact(b), a)} :
           /\ rt' = r.rt
           /\ resp' = Response("FreshAdd", [NoReq EXCEPT !.id = a, !.node = Contact(b)], 0,
                               IF r.panic THEN "panic" ELSE "returned", <<>>, "")
    /\ UNCHANGED <<started, kValue, kv, goVars>>

NextIds ==
    \/ \E id \in ValidateInputs : Validate(id)
    \/ \E a, b \in DistanceIDs : Distance(a, b)
    \/ \E a, b \in DistanceIDs : FreshAdd(a, b)

SpecIds == Init /\ [][NextIds]_vars

----------------------------------------------------------------------------
(* The key-value store by itself: sequences of Set and Get calls.  accepted *)
(* keeps, for every key, the pair of the last Set on it.                   *)

KvKeys == {Key1, Key2, <<>>}
KvValues == {"v1", "v2", ""}

\* KeyValueStore.Set(key, value)
CallSet(key, value) ==
    /\ kv' = KVSet(kv, key, value)
    /\ accepted' = {a \in accepted : a[1] # key} \cup {<<key, value>>}
    /\ resp' = Response("Set", [NoReq EXCEPT !.id = key, !.value = value], 0, "returned", <<>>, "")
    /\ UNCHANGED <<started, kValue, rt, pc, greq, gloc, mu>>

\* KeyValueStore.Get(key)
CallGet(key) ==
    /\ resp' = Response("Get", [NoReq EXCEPT !.id = key], 0,
                        IF Lookup(kv, key).found THEN "value" ELSE "missing",
                        <<>>, Lookup(kv, key).value)
    /\ UNCHANGED <<started, kValue, rt, kv, goVars>>

NextKv ==
    \/ \E key \in KvKeys : \E value \in KvValues : CallSet(key, value)
    \/ \E key \in KvKeys : CallGet(key)

SpecKv == Init /\ [][NextKv]_vars

----------------------------------------------------------------------------
(* The handlers as goroutines: net/http serves every request in its own    *)
(* goroutine, and AddNodeToRoutingTable reads and writes bucket.Nodes with *)
(* no lock, one slice-header load or store at a time.                      *)

ConcPingRequests ==
    {[id |-> id, port |-> GoodPort, remote |-> GoodAddr] : id \in {MkID("a", "4"), MkID("a", "5")}}
    \cup {[id |-> <<>>, port |-> <<>>, remote |-> GoodAddr]}

ConcStoreRequests ==
    {[method |-> "POST", json |-> TRUE, key |-> Key2, value |-> "v1"],
     [method |-> "POST", json |-> TRUE, key |-> Key2, value |-> ""]}

Goto(p, label) == pc' = [pc EXCEPT ![p] = label]

\* idle goroutines are interchangeable: a request goes to the first of them
Idle(p) == pc[p] = "idle" /\ \A q \in Procs : q < p => pc[q] # "idle"

\* the handler of goroutine p writes its response and returns
Respond(p, r) ==
    /\ resp' = r
    /\ greq' = [greq EXCEPT ![p] = NoReq]
    /\ gloc' = [gloc EXCEPT ![p] = NoLoc]
    /\ Goto(p, "idle")

\* PingHandler up to the call of AddNodeToRoutingTable, and the first two
\* statements of that call (distance, bucketIndex, bucket)
GoPing(p, id, port, remote) ==
    /\ started
    /\ Idle(p)
    /\ LET req == [NoReq EXCEPT !.id = id, !.port = port, !.remote = remote]
           pingerUDPPort == Atoi(port)
           split == SplitHostPort(remote)
           pingerNode == [ID |-> id, IP |-> split.host, Port |-> pingerUDPPort.val]
           bucketIndex == getBucketIndex(XORDistance(LocalID, id))
       IN  IF id # <<>> /\ port # <<>>
           THEN IF pingerUDPPort.err \/ pingerUDPPort.val <= 0 \/ pingerUDPPort.val > MaxPort
                THEN /\ Respond(p, HttpError("PING", req, 400, "Invalid UDP port provided"))
                ELSE IF split.err
                THEN /\ Respond(p, HttpError("PING", req, 500, "Failed to extract IP address"))
                ELSE IF XORDistance(LocalID, id) = Nil \/ bucketIndex \notin DOMAIN rt
                THEN /\ Respond(p, Panicked("PING", [req EXCEPT !.node = pingerNode]))
                ELSE /\ greq' = [greq EXCEPT ![p] = [req EXCEPT !.node = pingerNode]]
                     /\ gloc' = [gloc EXCEPT ![p] = [bucketIndex |-> bucketIndex, nodes |-> <<>>]]
                     /\ resp' = resp
                     /\ Goto(p, "scan")
           ELSE /\ greq' = [greq EXCEPT ![p] = req]
                /\ UNCHANGED <<resp, gloc>>
                /\ Goto(p, "print")
    /\ UNCHANGED <<started, kValue, rt, kv, mu, accepted>>

\* for _, n := range bucket.Nodes: one load of the slice, then the scan
AddScan(p) ==
    /\ pc[p] = "scan"
    /\ IF HasID(rt[gloc[p].bucketIndex].Nodes, greq[p].node.ID)
       THEN Goto(p, "print")
       ELSE Goto(p, "len")
    /\ UNCHANGED <<started, kValue, rt, kv, resp, greq, gloc, mu, accepted>>

\* if len(bucket.Nodes) < bucket.MaxSize
AddLen(p) ==
    /\ pc[p] = "len"
    /\ LET bucket == rt[gloc[p].bucketIndex]
       IN  IF Len(bucket.Nodes) < bucket.MaxSize
           THEN Goto(p, "append_load")
           ELSE Goto(p, "evict_load")
    /\ UNCHANGED <<started, kValue, rt, kv, resp, greq, gloc, mu, accepted>>

\* bucket.Nodes = bucket.Nodes[1:], the load; an empty slice panics
EvictLoad(p) ==
    /\ pc[p] = "evict_load"
    /\ LET nodes == rt[gloc[p].bucketIndex].Nodes
       IN  IF Len(nodes) = 0
           THEN /\ Respond(p, Panicked("PING", greq[p]))
           ELSE /\ gloc' = [gloc EXCEPT ![p].nodes = nodes]
                /\ UNCHANGED <<resp, greq>>
                /\ Goto(p, "evict_store")
    /\ UNCHANGED <<started, kValue, rt, kv, mu, accepted>>

\* bucket.Nodes = bucket.Nodes[1:], the store; the request keeps the entry
\* the slice lost, as the whole call does
EvictStore(p) ==
    /\ pc[p] = "evict_store"
    /\ rt' = [rt EXCEPT ![gloc[p].bucketIndex].Nodes = DropHead(gloc[p].nodes)]
    /\ greq' = [greq EXCEPT ![p].evicted = gloc[p].nodes[1]]
    /\ Goto(p, "append_load")
    /\ UNCHANGED <<started, kValue, kv, resp, gloc, mu, accepted>>

\* bucket.Nodes = append(bucket.Nodes, target), the load
AppendLoad(p) ==
    /\ pc[p] = "append_load"
    /\ gloc' = [gloc EXCEPT ![p].nodes = rt[gloc[p].bucketIndex].Nodes]
    /\ Goto(p, "append_store")
    /\ UNCHANGED <<started, kValue, rt, kv, resp, greq, mu, accepted>>

\* bucket.Nodes = append(bucket.Nodes, target), the store
AppendStore(p) ==
    /\ pc[p] = "append_store"
    /\ rt' = [rt EXCEPT ![gloc[p].bucketIndex].Nodes = Append(gloc[p].nodes, greq[p].node)]
    /\ Goto(p, "print")
    /\ UNCHANGED <<started, kValue, kv, resp, greq, gloc, mu, accepted>>

\* the rest of PingHandler: the debug prints (storage.GetAll takes the read
\* lock) and the pong
PingRespond(p) ==
    /\ pc[p] = "print"
    /\ RLockable(mu)
    /\ Respond(p, Pong("PING", greq[p]))
    /\ UNCHANGED <<started, kValue, rt, kv, mu, accepted>>

\* FindNodeHandler; FindClosestNodes reads the buckets with no lock
GoFindNode(p, id) ==
    /\ started
    /\ Idle(p)
    /\ LET req == [NoReq EXCEPT !.id = id]
       IN  /\ IF ValidateIDOf(id) # "ok"
              THEN Respond(p, HttpError("FIND_NODE", req, 400, InvalidIDFormat[ValidateIDOf(id)]))
              ELSE \E closestNodes \in FindClosestNodes(rt, id, kValue) :
                       Respond(p, Response("FIND_NODE", req, 200, "nodes", closestNodes, ""))
    /\ UNCHANGED <<started, kValue, rt, kv, mu, accepted>>

\* StoreHandler up to the validation of the key
GoStore(p, method, json, key, value) ==
    /\ started
    /\ Idle(p)
    /\ LET req == [NoReq EXCEPT !.method = method, !.json = json, !.id = key, !.value = value]
       IN  /\ IF method # "POST"
              THEN Respond(p, HttpError("STORE", req, 405, "Invalid request method"))
              ELSE IF ~json \/ key = <<>> \/ value = ""
              THEN Respond(p, HttpError("STORE", req, 400, "Invalid JSON payload"))
              ELSE IF ValidateIDOf(key) # "ok"
              THEN Respond(p, HttpError("STORE", req, 400, InvalidKeyFormat[ValidateIDOf(key)]))
              ELSE /\ greq' = [greq EXCEPT ![p] = req]
                   /\ UNCHANGED <<resp, gloc>>
                   /\ Goto(p, "gate")
    /\ UNCHANGED <<started, kValue, rt, kv, mu, accepted>>

\* a variant that calls storage.Set before the isClosest loop decides
StoreGateSetFirst(p) ==
    /\ pc[p] = "gate"
    /\ Lockable(mu)
    /\ kv' = KVSet(kv, greq[p].id, greq[p].value)
    /\ \E closestNodes \in FindClosestNodes(rt, greq[p].id, kValue) :
           IF ~IsClosest(closestNodes)
           THEN /\ Respond(p, Response("STORE", greq[p], 200, "nodes", closestNodes, ""))
                /\ accepted' = accepted
           ELSE /\ accepted' = accepted \cup {<<greq[p].id, greq[p].value>>}
                /\ Respond(p, Response("STORE", greq[p], 201, "stored", <<>>, greq[p].value))
    /\ UNCHANGED <<started, kValue, rt, mu>>

\* the rest of StoreHandler: FindClosestNodes, the isClosest loop, and either
\* the redirect or storage.Set under the write lock and the 201
StoreGate(p) ==
    /\ pc[p] = "gate"
    /\ \E closestNodes \in FindClosestNodes(rt, greq[p].id, kValue) :
           IF ~IsClosest(closestNodes)
           THEN /\ Respond(p, Response("STORE", greq[p], 200, "nodes", closestNodes, ""))
                /\ kv' = Refused(kv, greq[p].id, greq[p].value)
                /\ accepted' = accepted
           ELSE /\ Lockable(mu)
                /\ kv' = KVSet(kv, greq[p].id, greq[p].value)
                /\ accepted' = accepted \cup {<<greq[p].id, greq[p].value>>}
                /\ Respond(p, Response("STORE", greq[p], 201, "stored", <<>>, greq[p].value))
    /\ UNCHANGED <<started, kValue, rt, mu>>

\* FindValueHandler; storage.Store is read with no lock
GoFindValue(p, key) ==
    /\ started
    /\ Idle(p)
    /\ LET req == [NoReq EXCEPT !.id = key]
       IN  /\ IF key = <<>>
              THEN Respond(p, HttpError("FIND_VALUE", req, 400, "Missing 'key' parameter"))
              ELSE IF ValidateIDOf(key) # "ok"
              THEN Respond(p, HttpError("FIND_VALUE", req, 400, InvalidKeyFormat[ValidateIDOf(key)]))
              ELSE IF Lookup(kv, key).found
              THEN Respond(p, Response("FIND_VALUE", req, 200, "value", <<>>, Lookup(kv, key).value))
              ELSE \E closestNodes \in FindClosestNodes(rt, key, kValue) :
                       Respond(p, Response("FIND_VALUE", req, 200, "nodes", closestNodes, ""))
    /\ UNCHANGED <<started, kValue, rt, kv, mu, accepted>>

NextConc ==
    \/ NewNode
    \/ \E p \in Procs : \E r \in ConcPingRequests : GoPing(p, r.id, r.port, r.remote)
    \/ \E p \in Procs : AddScan(p)
    \/ \E p \in Procs : AddLen(p)
    \/ \E p \in Procs : EvictLoad(p)
    \/ \E p \in Procs : EvictStore(p)
    \/ \E p \in Procs : AppendLoad(p)
    \/ \E p \in Procs : AppendStore(p)
    \/ \E p \in Procs : PingRespond(p)
    \/ \E p \in Procs : GoFindNode(p, Key2)
    \/ \E p \in Procs : \E r \in ConcStoreRequests : GoStore(p, r.method, r.json, r.key, r.value)
    \/ \E p \in Procs : StoreGate(p)
    \/ \E p \in Procs : GoFindValue(p, Key2)

SpecConc == Init /\ [][NextConc]_vars

----------------------------------------------------------------------------
(* The handlers as goroutines, with every Lock, RLock and unlock a step of *)
(* its own: GetAll in PingHandler, GetK in FindClosestNodes, storage.Set   *)
(* in StoreHandler, and SetK called by the owner of the node while it      *)
(* serves.  PingHandler up to its prints and StoreHandler up to its        *)
(* validation are the steps of the section before.                         *)

\* SetK as the goroutines call it: with the value k already has
LiveKValues == {DefaultK}

LivePingRequests ==
    {[id |-> MkID("a", "4"), port |-> GoodPort, remote |-> GoodAddr],
     [id |-> <<>>, port |-> <<>>, remote |-> GoodAddr]}

\* the positions of a call of FindClosestNodes, by the handler that calls
Collecting == {"fn_collect", "gate", "fv_collect"}
AfterCollect == ("fn_collect" :> "fn_getk") @@ ("gate" :> "st_getk") @@ ("fv_collect" :> "fv_getk")
AfterGetK == ("fn_getk" :> "fn_k") @@ ("st_getk" :> "st_k") @@ ("fv_getk" :> "fv_k")
AfterK == ("fn_k" :> "fn_copy") @@ ("st_k" :> "st_copy") @@ ("fv_k" :> "fv_copy")

\* storage.GetAll() of the prints of PingHandler: kv.mu.RLock()
PingRLock(p) ==
    /\ pc[p] = "print"
    /\ RLockable(mu)
    /\ mu' = [mu EXCEPT !.readers = @ \cup {p}]
    /\ Goto(p, "ping_copy")
    /\ UNCHANGED <<started, kValue, rt, kv, resp, greq, gloc, accepted>>

\* the copy loop of GetAll and its deferred RUnlock
PingRUnlock(p) ==
    /\ pc[p] = "ping_copy"
    /\ mu' = RUnlock(mu, p)
    /\ Goto(p, "ping_pong")
    /\ UNCHANGED <<started, kValue, rt, kv, resp, greq, gloc, accepted>>

\* the pong
PingPong(p) ==
    /\ pc[p] = "ping_pong"
    /\ Respond(p, Pong("PING", greq[p]))
    /\ UNCHANGED <<started, kValue, rt, kv, mu, accepted>>

\* FindNodeHandler up to the call of FindClosestNodes
StartFindNode(p, id) ==
    /\ started
    /\ Idle(p)
    /\ LET req == [NoReq EXCEPT !.id = id]
       IN  IF ValidateIDOf(id) # "ok"
           THEN Respond(p, HttpError("FIND_NODE", req, 400, InvalidIDFormat[ValidateIDOf(id)]))
           ELSE /\ greq' = [greq EXCEPT ![p] = req]
                /\ UNCHANGED <<resp, gloc>>
                /\ Goto(p, "fn_collect")
    /\ UNCHANGED <<started, kValue, rt, kv, mu, accepted>>

\* FindValueHandler up to the call of FindClosestNodes
StartFindValue(p, key) ==
    /\ started
    /\ Idle(p)
    /\ LET req == [NoReq EXCEPT !.id = key]
       IN  IF key = <<>>
           THEN Respond(p, HttpError("FIND_VALUE", req, 400, "Missing 'key' parameter"))
           ELSE IF ValidateIDOf(key) # "ok"
           THEN Respond(p, HttpError("FIND_VALUE", req, 400, InvalidKeyFormat[ValidateIDOf(key)]))
           ELSE IF Lookup(kv, key).found
           THEN Respond(p, Response("FIND_VALUE", req, 200, "value", <<>>, Lookup(kv, key).value))
           ELSE /\ greq' = [greq EXCEPT ![p] = req]
                /\ UNCHANGED <<resp, gloc>>
                /\ Goto(p, "fv_collect")
    /\ UNCHANGED <<started, kValue, rt, kv, mu, accepted>>

\* FindClosestNodes: the loop over the buckets and the sort
ClosestCollect(p) ==
    /\ pc[p] \in Collecting
    /\ \E nodes \in {CollectNodes(rt, NonEmptyBuckets(rt))} :
         \E d \in {DistancesTo(nodes, greq[p].id)} :
           \E less \in {RanksOf(d)} :
             \E s \in OrdersBy(nodes, less) :
               gloc' = [gloc EXCEPT ![p].nodes = s]
    /\ Goto(p, AfterCollect[pc[p]])
    /\ UNCHANGED <<started, kValue, rt, kv, resp, greq, mu, accepted>>

\* constants.GetK(): mu.RLock()
GetKRLock(p) ==
    /\ pc[p] \in DOMAIN AfterGetK
    /\ KRLockable(mu)
    /\ mu' = [mu EXCEPT !.kreaders = @ \cup {p}]
    /\ Goto(p, AfterGetK[pc[p]])
    /\ UNCHANGED <<started, kValue, rt, kv, resp, greq, gloc, accepted>>

\* constants.GetK(): the read of kValue and the deferred RUnlock
GetKRUnlock(p) ==
    /\ pc[p] \in DOMAIN AfterK
    /\ greq' = [greq EXCEPT ![p].k = kValue]
    /\ mu' = KRUnlock(mu, p)
    /\ Goto(p, AfterK[pc[p]])
    /\ UNCHANGED <<started, kValue, rt, kv, resp, gloc, accepted>>

\* StoreHandler after FindClosestNodes: the copy loop, the isClosest loop
\* and the redirect
StoreDecide(p) ==
    /\ pc[p] = "st_copy"
    /\ IF ~IsClosest(FirstK(gloc[p].nodes, greq[p].k))
       THEN Respond(p, Response("STORE", [greq[p] EXCEPT !.k = 0], 200, "nodes",
                                FirstK(gloc[p].nodes, greq[p].k), ""))
       ELSE /\ Goto(p, "st_lock")
            /\ UNCHANGED <<resp, greq, gloc>>
    /\ UNCHANGED <<started, kValue, rt, kv, mu, accepted>>

\* the owner of the node calls constants.SetK(value)
GoSetK(p, value) ==
    /\ started
    /\ Idle(p)
    /\ greq' = [greq EXCEPT ![p] = [NoReq EXCEPT !.k = value]]
    /\ Goto(p, "setk_lock")
    /\ UNCHANGED <<started, kValue, rt, kv, resp, gloc, mu, accepted>>

\* mu.Lock() of SetK, kv.mu.Lock() of storage.Set
WriteLock(p) ==
    /\ pc[p] \in {"setk_lock", "st_lock"}
    /\ IF pc[p] = "setk_lock"
       THEN /\ KLockable(mu)
            /\ mu' = [mu EXCEPT !.kwriter = p]
            /\ Goto(p, "setk_write")
       ELSE /\ Lockable(mu)
            /\ mu' = [mu EXCEPT !.writer = p]
            /\ Goto(p, "st_write")
    /\ UNCHANGED <<started, kValue, rt, kv, resp, greq, gloc, accepted>>

\* the write and the deferred Unlock: of SetK, which then returns, and of
\* storage.Set
WriteUnlock(p) ==
    /\ pc[p] \in {"setk_write", "st_write"}
    /\ IF pc[p] = "setk_write"
       THEN /\ kValue' = greq[p].k
            /\ mu' = [mu EXCEPT !.kwriter = 0]
            /\ Respond(p, Response("SetK", greq[p], 0, "none", <<>>, ""))
            /\ UNCHANGED <<kv, accepted>>
       ELSE /\ kv' = KVSet(kv, greq[p].id, greq[p].value)
            /\ accepted' = accepted \cup {<<greq[p].id, greq[p].value>>}
            /\ mu' = [mu EXCEPT !.writer = 0]
            /\ Goto(p, "st_created")
            /\ UNCHANGED <<kValue, resp, greq, gloc>>
    /\ UNCHANGED <<started, rt>>

\* the handler writes its response: the contact list of FindNodeHandler and
\* of FindValueHandler, the 201 of StoreHandler
Answer(p) ==
    /\ pc[p] \in {"fn_copy", "fv_copy", "st_created"}
    /\ Respond(p, CASE pc[p] = "fn_copy" ->
                         Response("FIND_NODE", [greq[p] EXCEPT !.k = 0], 200, "nodes",
                                  FirstK(gloc[p].nodes, greq[p].k), "")
                     [] pc[p] = "fv_copy" ->
                         Response("FIND_VALUE", [greq[p] EXCEPT !.k = 0], 200, "nodes",
                                  FirstK(gloc[p].nodes, greq[p].k), "")
                     [] OTHER ->
                         Response("STORE", [greq[p] EXCEPT !.k = 0], 201, "stored", <<>>, greq[p].value))
    /\ UNCHANGED <<started, kValue, rt, kv, mu, accepted>>

\* the steps of goroutine p that wait for nothing
Internal(p) ==
    \/ AddScan(p) \/ AddLen(p) \/ EvictLoad(p) \/ EvictStore(p) \/ AppendLoad(p) \/ AppendStore(p)
    \/ PingRUnlock(p) \/ PingPong(p) \/ ClosestCollect(p) \/ GetKRUnlock(p)
    \/ StoreDecide(p) \/ WriteUnlock(p) \/ Answer(p)

\* the steps of goroutine p that take a lock
Acquire(p) == PingRLock(p) \/ GetKRLock(p) \/ WriteLock(p)

NextLive ==
    \/ NewNode
    \/ \E p \in Procs : \E r \in LivePingRequests : GoPing(p, r.id, r.port, r.remote)
    \/ \E p \in Procs : AddScan(p)
    \/ \E p \in Procs : AddLen(p)
    \/ \E p \in Procs : EvictLoad(p)
    \/ \E p \in Procs : EvictStore(p)
    \/ \E p \in Procs : AppendLoad(p)
    \/ \E p \in Procs : AppendStore(p)
    \/ \E p \in Procs : PingRLock(p)
    \/ \E p \in Procs : PingRUnlock(p)
    \/ \E p \in Procs : PingPong(p)
    \/ \E p \in Procs : StartFindNode(p, Key2)
    \/ \E p \in Procs : GoStore(p, "POST", TRUE, Key2, "v1")
    \/ \E p \in Procs : StartFindValue(p, Key2)
    \/ \E p \in Procs : ClosestCollect(p)
    \/ \E p \in Procs : GetKRLock(p)
    \/ \E p \in Procs : GetKRUnlock(p)
    \/ \E p \in Procs : StoreDecide(p)
    \/ \E p \in Procs : \E value \in LiveKValues : GoSetK(p, value)
    \/ \E p \in Procs : WriteLock(p)
    \/ \E p \in Procs : WriteUnlock(p)
    \/ \E p \in Procs : Answer(p)

\* the scheduler runs every goroutine that can take a step, and a sync.RWMutex
\* that is free again and again is not refused forever to a goroutine that
\* waits for it
Fairness == \A p \in Procs : WF_vars(Internal(p)) /\ SF_vars(Acquire(p))

SpecLive == Init /\ [][NextLive]_vars /\ Fairness

----------------------------------------------------------------------------
(* The key-value store under goroutines: Set, Get and GetAll take the      *)
(* RWMutex of the store, FindValueHandler reads storage.Store directly.    *)
(* A write to the map is a load of the map and a store of the new map.     *)

\* the key goroutine p writes: the keys of the writers are pairwise distinct
StoreKeys == <<Key1, Key2, MkID("a", "4"), MkID("a", "5")>>
KeyOf(p) == StoreKeys[p]
StoreValues == {"v1", "v2"}

\* the keys the readers ask for
ReadKeys == {KeyOf(1), KeyOf(2)}

\* goroutine p calls storage.Set(KeyOf(p), value)
GoSet(p, value) ==
    /\ started
    /\ pc[p] = "idle"
    /\ greq' = [greq EXCEPT ![p] = [NoReq EXCEPT !.id = KeyOf(p), !.value = value]]
    /\ Goto(p, "set_lock")
    /\ UNCHANGED <<started, kValue, rt, kv, resp, gloc, mu, accepted>>

\* kv.mu.Lock()
SetLock(p) ==
    /\ pc[p] = "set_lock"
    /\ Lockable(mu)
    /\ mu' = [mu EXCEPT !.writer = p]
    /\ Goto(p, "set_write")
    /\ UNCHANGED <<started, kValue, rt, kv, resp, greq, gloc, accepted>>

\* kv.Store[key] = value begins: the map is loaded
SetLoad(p) ==
    /\ pc[p] = "set_write"
    /\ greq' = [greq EXCEPT ![p].all = kv]
    /\ Goto(p, "set_store")
    /\ UNCHANGED <<started, kValue, rt, kv, resp, gloc, mu, accepted>>

\* kv.Store[key] = value ends, the deferred Unlock runs and Set returns
SetStore(p) ==
    /\ pc[p] = "set_store"
    /\ kv' = KVSet(greq[p].all, greq[p].id, greq[p].value)
    /\ mu' = [mu EXCEPT !.writer = 0]
    /\ accepted' = {a \in accepted : a[1] # greq[p].id} \cup {<<greq[p].id, greq[p].value>>}
    /\ Respond(p, Response("Set", [greq[p] EXCEPT !.all = NewKeyValueStore], 0, "returned", <<>>, ""))
    /\ UNCHANGED <<started, kValue, rt>>

\* goroutine p calls storage.Get(key)
GoGet(p, key) ==
    /\ started
    /\ pc[p] = "idle"
    /\ greq' = [greq EXCEPT ![p] = [NoReq EXCEPT !.id = key]]
    /\ Goto(p, "get_lock")
    /\ UNCHANGED <<started, kValue, rt, kv, resp, gloc, mu, accepted>>

\* kv.mu.RLock() of Get
GetRLock(p) ==
    /\ pc[p] = "get_lock"
    /\ RLockable(mu)
    /\ mu' = [mu EXCEPT !.readers = @ \cup {p}]
    /\ Goto(p, "get_read")
    /\ UNCHANGED <<started, kValue, rt, kv, resp, greq, gloc, accepted>>

\* value, exists := kv.Store[key], the deferred RUnlock and the return
GetRead(p) ==
    /\ pc[p] = "get_read"
    /\ mu' = [mu EXCEPT !.readers = @ \ {p}]
    /\ Respond(p, Response("Get", greq[p], 0,
                           IF Lookup(kv, greq[p].id).found THEN "value" ELSE "missing",
                           <<>>, Lookup(kv, greq[p].id).value))
    /\ UNCHANGED <<started, kValue, rt, kv, accepted>>

\* goroutine p calls storage.GetAll(), as PingHandler does for its print
GoGetAll(p) ==
    /\ started
    /\ pc[p] = "idle"
    /\ greq' = [greq EXCEPT ![p] = NoReq]
    /\ Goto(p, "getall_lock")
    /\ UNCHANGED <<started, kValue, rt, kv, resp, gloc, mu, accepted>>

\* kv.mu.RLock() of GetAll
GetAllRLock(p) ==
    /\ pc[p] = "getall_lock"
    /\ RLockable(mu)
    /\ mu' = [mu EXCEPT !.readers = @ \cup {p}]
    /\ Goto(p, "getall_read")
    /\ UNCHANGED <<started, kValue, rt, kv, resp, greq, gloc, accepted>>

\* the copy loop over kv.Store, the deferred RUnlock and the return
GetAllRead(p) ==
    /\ pc[p] = "getall_read"
    /\ mu' = [mu EXCEPT !.readers = @ \ {p}]
    /\ Respond(p, Response("GetAll", [greq[p] EXCEPT !.all = kv], 0, "returned", <<>>, ""))
    /\ UNCHANGED <<started, kValue, rt, kv, accepted>>

\* FindValueHandler up to the map read
GoLookup(p, key) ==
    /\ started
    /\ pc[p] = "idle"
    /\ LET req == [NoReq EXCEPT !.id = key]
       IN  IF key = <<>>
           THEN Respond(p, HttpError("FIND_VALUE", req, 400, "Missing 'key' parameter"))
           ELSE IF ValidateIDOf(key) # "ok"
           THEN Respond(p, HttpError("FIND_VALUE", req, 400, InvalidKeyFormat[ValidateIDOf(key)]))
           ELSE /\ greq' = [greq EXCEPT ![p] = req]
                /\ UNCHANGED <<resp, gloc>>
                /\ Goto(p, "find_read")
    /\ UNCHANGED <<started, kValue, rt, kv, mu, accepted>>

\* what a read of the map may see: the map, or, while a write is between its
\* load and its store, also the map that write is about to leave
Visible ==
    {kv} \cup {KVSet(greq[q].all, greq[q].id, greq[q].value) : q \in {r \in Procs : pc[r] = "set_store"}}

\* storage.Store[queryKey] with no lock, and the answer
FindRead(p) ==
    /\ pc[p] = "find_read"
    /\ \E store \in Visible :
           IF Lookup(store, greq[p].id).found
           THEN Respond(p, Response("FIND_VALUE", greq[p], 200, "value", <<>>, Lookup(store, greq[p].id).value))
           ELSE \E closestNodes \in FindClosestNodes(rt, greq[p].id, kValue) :
                    Respond(p, Response("FIND_VALUE", greq[p], 200, "nodes", closestNodes, ""))
    /\ UNCHANGED <<started, kValue, rt, kv, mu, accepted>>

\* the runtime finds the map read during a map write and stops the process:
\* "fatal error: concurrent map read and map write"
FindFatal(p) ==
    /\ pc[p] = "find_read"
    /\ \E q \in Procs : pc[q] = "set_store"
    /\ started' = FALSE
    /\ rt' = <<>>
    /\ kv' = NewKeyValueStore
    /\ resp' = Panicked("FIND_VALUE", greq[p])
    /\ pc' = GoIdle
    /\ greq' = NoGReq
    /\ gloc' = NoGLoc
    /\ mu' = Unlocked
    /\ accepted' = {}
    /\ UNCHANGED kValue

NextStore ==
    \/ NewNode
    \/ \E p \in Procs : \E value \in StoreValues : GoSet(p, value)
    \/ \E p \in Procs : SetLock(p)
    \/ \E p \in Procs : SetLoad(p)
    \/ \E p \in Procs : SetStore(p)
    \/ \E p \in Procs : \E key \in ReadKeys : GoGet(p, key)
    \/ \E p \in Procs : GetRLock(p)
    \/ \E p \in Procs : GetRead(p)
    \/ \E p \in Procs : GoGetAll(p)
    \/ \E p \in Procs : GetAllRLock(p)
    \/ \E p \in Procs : GetAllRead(p)
    \/ \E p \in Procs : \E key \in ReadKeys : GoLookup(p, key)
    \/ \E p \in Procs : FindRead(p)
    \/ \E p \in Procs : FindFatal(p)

SpecStore == Init /\ [][NextStore]_vars

----------------------------------------------------------------------------
(* Properties of the whole calls *)

\* what the routing table holds: (bucket, position) of every entry
Entries(table) == UNION {{<<i, j>> : j \in 1..Len(table[i].Nodes)} : i \in DOMAIN table}

TotalContacts(table) == Cardinality(Entries(table))

\* the last whole call inserted a contact: a direct add or a PING that returned
AddReturned(r) ==
    /\ r.op \in {"Add", "PING"}
    /\ r.kind \in {"returned", "pong"}
    /\ r.req.node # NoNode

TargetBucket(id) == getBucketIndex(XORDistance(LocalID, id))

Ascending(nodes, t) ==
    \A i \in 1..(Len(nodes) - 1) :
        BigCmp(XORDistance(t, nodes[i].ID), XORDistance(t, nodes[i + 1].ID)) <= 0

Min(a, b) == IF a < b THEN a ELSE b

\* C1: after any sequence of add calls no bucket holds more entries than the
\* capacity k the table was built with, and no id appears twice in the table.
C1_CapacityAndUniqueness ==
    /\ \A i \in DOMAIN rt : Len(rt[i].Nodes) <= rt[i].MaxSize
    /\ \A e, f \in Entries(rt) :
           rt[e[1]].Nodes[e[2]].ID = rt[f[1]].Nodes[f[2]].ID => e = f

\* a bucket built with capacity 2 is full and the last add replaced its head
C1_Witness ==
    /\ AddReturned(resp)
    /\ resp.req.evicted # NoNode
    /\ \E i \in DOMAIN rt : rt[i].MaxSize = 2 /\ Len(rt[i].Nodes) = 2

\* C2: an add of a contact c whose id is not in its full bucket leaves the
\* bucket as the old sequence without its head, followed by c; every other
\* bucket is as it was.
C2_FifoEviction ==
    [][(/\ AddReturned(resp')
        /\ TargetBucket(resp'.req.node.ID) \in DOMAIN rt
        /\ LET b == rt[TargetBucket(resp'.req.node.ID)]
           IN  /\ ~HasID(b.Nodes, resp'.req.node.ID)
               /\ Len(b.Nodes) = b.MaxSize)
       => LET i == TargetBucket(resp'.req.node.ID)
              old == rt[i].Nodes
          IN  /\ Len(rt'[i].Nodes) = Len(old)
              /\ \A j \in 1..(Len(old) - 1) : rt'[i].Nodes[j] = old[j + 1]
              /\ rt'[i].Nodes[Len(old)] = resp'.req.node
              /\ ~HasID(rt'[i].Nodes, old[1].ID)
              /\ \A j \in DOMAIN rt : j # i => rt'[j] = rt[j]]_vars

\* a full bucket of two lost its head to a PING and kept the other entry first
C2_Witness ==
    /\ resp.op = "PING"
    /\ resp.kind = "pong"
    /\ resp.req.evicted # NoNode
    /\ LET b == rt[TargetBucket(resp.req.node.ID)]
       IN  /\ b.MaxSize = 2
           /\ Len(b.Nodes) = 2
           /\ b.Nodes[2] = resp.req.node
           /\ b.Nodes[1] # resp.req.evicted

\* C3: for every target, every result of FindClosestNodes on the table holds
\* exactly min(k, total) contacts (k the current GetK), all of them entries of
\* the table, in ascending distance to the target, none twice, none the local
\* node; it is empty on an empty table.
C3_FindClosest ==
    started =>
        \A t \in Keys : \A r \in FindClosestNodes(rt, t, kValue) :
            /\ Len(r) <= kValue
            /\ Len(r) = Min(kValue, TotalContacts(rt))
            /\ TotalContacts(rt) = 0 => r = <<>>
            /\ Ascending(r, t)
            /\ \A i, j \in 1..Len(r) : r[i].ID = r[j].ID => i = j
            /\ \A i \in 1..Len(r) :
                   /\ r[i].ID # LocalID
                   /\ \E e \in Entries(rt) : rt[e[1]].Nodes[e[2]] = r[i]

\* FIND_NODE answered k = 2 contacts out of a table that holds more
C3_Witness ==
    /\ resp.op = "FIND_NODE"
    /\ resp.status = 200
    /\ kValue = 2
    /\ Len(resp.nodes) = 2
    /\ TotalContacts(rt) > 2

\* a STORE request that passes validation: POST, parsable JSON, a key that
\* passes ValidateID and a non-empty value
ValidStore(r) ==
    /\ r.op = "STORE"
    /\ r.req.method = "POST"
    /\ r.req.json
    /\ r.req.value # ""
    /\ ValidateIDOf(r.req.id) = "ok"

\* the ids of the table strictly closer to the key than the local id
CloserThanSelf(table, key) ==
    {e \in Entries(table) :
        BigCmp(XORDistance(key, table[e[1]].Nodes[e[2]].ID), XORDistance(key, LocalID)) < 0}

\* the local id is among the k closest of the known contacts and itself
SelfAmongClosest(table, key, k) == Cardinality(CloserThanSelf(table, key)) < k

\* C4: a valid STORE is accepted (201, pair persisted) exactly when the local
\* id is among the k closest ids to the key over the known contacts and itself.
C4_ProximityGate ==
    ValidStore(resp) =>
        /\ (resp.status = 201) <=> SelfAmongClosest(rt, resp.req.id, kValue)
        /\ resp.status = 201 =>
               resp.req.id \in DOMAIN kv /\ kv[resp.req.id] = resp.req.value

\* C5: a valid STORE that is not accepted is answered 200 with a result of
\* FindClosestNodes for the key, in ascending distance, and leaves the store as
\* it was; a FIND_VALUE for that key served next answers a contact list when
\* the key was not stored before.
C5_RefusedStore ==
    [][/\ (ValidStore(resp') /\ resp'.status # 201)
           => /\ resp'.status = 200
              /\ resp'.kind = "nodes"
              /\ resp'.nodes \in FindClosestNodes(rt, resp'.req.id, kValue)
              /\ Ascending(resp'.nodes, resp'.req.id)
              /\ kv' = kv
       /\ (/\ ValidStore(resp) /\ resp.status # 201
           /\ resp.req.id \notin DOMAIN kv
           /\ resp'.op = "FIND_VALUE" /\ resp'.req.id = resp.req.id)
           => /\ resp'.status = 200
              /\ resp'.kind = "nodes"]_vars

\* a STORE was refused with two contacts in the answer and nothing is stored
C5_Witness ==
    /\ ValidStore(resp)
    /\ resp.status = 200
    /\ Len(resp.nodes) = 2
    /\ resp.req.id \notin DOMAIN kv

\* C6: an add of a contact with the local id returns without failing and
\* without changing the table, and the local id is in no bucket.
C6_SelfAddReturns ==
    /\ (resp.op = "Add" /\ resp.req.id = LocalID) => resp.kind = "returned"
    /\ \A e \in Entries(rt) : rt[e[1]].Nodes[e[2]].ID # LocalID

\* C7: a valid STORE served right after the node added itself to a table that
\* holds no other contact is answered 201, and the pair is then in the store.
C7_SelfOnlyStore ==
    [][(/\ resp.op = "Add" /\ resp.req.id = LocalID
        /\ \A e \in Entries(rt) : rt[e[1]].Nodes[e[2]].ID = LocalID
        /\ ValidStore(resp'))
       => /\ resp'.status = 201
          /\ resp'.req.id \in DOMAIN kv'
          /\ kv'[resp'.req.id] = resp'.req.value]_vars

\* a FIND_VALUE request that passes validation
ValidFindValue(r) == r.op = "FIND_VALUE" /\ ValidateIDOf(r.req.id) = "ok"

\* C8: a well-formed FIND_VALUE is answered 200 with the stored value exactly
\* when the key is in the store, and otherwise 200 with a result of
\* FindClosestNodes for the key and no value.
C8_FindValueDichotomy ==
    ValidFindValue(resp) =>
        /\ resp.status = 200
        /\ resp.kind \in {"value", "nodes"}
        /\ (resp.kind = "value") <=> (resp.req.id \in DOMAIN kv)
        /\ resp.kind = "value" => resp.text = kv[resp.req.id] /\ resp.nodes = <<>>
        /\ resp.kind = "nodes" =>
               resp.text = "" /\ resp.nodes \in FindClosestNodes(rt, resp.req.id, kValue)

\* one key answered with its value while contacts are known
C8_WitnessValue ==
    /\ ValidFindValue(resp)
    /\ resp.kind = "value"
    /\ resp.text = "v2"
    /\ TotalContacts(rt) > 0

\* C32: a valid STORE served while the routing table holds fewer than k
\* contacts, the empty table of a fresh node included, is answered 201 and
\* the pair is then in the store, whatever the key.
C32_ColdStartAcceptance ==
    [][(ValidStore(resp') /\ TotalContacts(rt) < kValue)
       => /\ resp'.status = 201
          /\ resp'.req.id \in DOMAIN kv'
          /\ kv'[resp'.req.id] = resp'.req.value]_vars

----------------------------------------------------------------------------
(* Properties of the interleaved handlers *)

\* a step changes bucket i the way an exclusive add does: it appends a contact
\* whose id is new to the bucket while the bucket is below its capacity, or it
\* removes the head of the full bucket
ExclusiveStep(i) ==
    LET old == rt[i].Nodes
        new == rt'[i].Nodes
    IN  \/ new = old
        \/ /\ Len(old) < rt[i].MaxSize
           /\ Len(new) = Len(old) + 1
           /\ \A j \in 1..Len(old) : new[j] = old[j]
           /\ ~HasID(old, new[Len(new)].ID)
        \/ /\ Len(old) = rt[i].MaxSize
           /\ Len(old) > 0
           /\ new = Tail(old)

\* C9: in every interleaving of the handlers no bucket holds more entries
\* than its capacity, no id is twice in the table, and every step that changes
\* a bucket appends to what the bucket holds now or removes its present head,
\* so that an eviction takes the then-oldest entry and no insert is lost.
C9_ConcurrentTable ==
    /\ [](/\ \A i \in DOMAIN rt : Len(rt[i].Nodes) <= rt[i].MaxSize
          /\ \A e, f \in Entries(rt) :
                 rt[e[1]].Nodes[e[2]].ID = rt[f[1]].Nodes[f[2]].ID => e = f)
    /\ [][\A i \in DOMAIN rt : ExclusiveStep(i)]_vars

MidEviction(p) ==
    /\ pc[p] \in {"append_load", "append_store"}
    /\ greq[p].evicted # NoNode

\* bucket i holds what an eviction leaves between its two stores
Intermediate(i) ==
    \E p \in Procs :
        /\ MidEviction(p)
        /\ gloc[p].bucketIndex = i
        /\ Len(rt[i].Nodes) < rt[i].MaxSize
        /\ ~HasID(rt[i].Nodes, greq[p].node.ID)

\* the step answers a request with a result of FindClosestNodes
ReadsBuckets ==
    /\ resp'.op \in {"FIND_NODE", "FIND_VALUE", "STORE"}
    /\ resp'.kind = "nodes"
    /\ \/ resp' # resp
       \/ \E p \in Procs : pc[p] = "gate" /\ pc'[p] = "idle"

\* C31: a FIND_NODE, FIND_VALUE or STORE that runs while a PING inserts
\* never reads a bucket between the two stores of an eviction: no bucket it
\* reads holds the k-1 entries left after the head was dropped and before the
\* new contact was appended.
C31_ConsistentSnapshot ==
    [][ReadsBuckets => \A i \in DOMAIN rt : ~Intermediate(i)]_vars

----------------------------------------------------------------------------
(* Properties of the handlers with their locks *)

\* goroutine p holds, waits for, the lock of the store, of package constants
HoldsKv(p) == mu.writer = p \/ p \in mu.readers
HoldsK(p) == mu.kwriter = p \/ p \in mu.kreaders
WaitsKv(p) == pc[p] \in {"print", "st_lock"}
WaitsK(p) == pc[p] \in (DOMAIN AfterGetK) \cup {"setk_lock"}

\* goroutine p runs a handler
InHandler(p) == pc[p] \notin {"idle", "setk_lock", "setk_write"}

\* C35: in every fair interleaving of the handlers, every handler that has
\* started ends; no goroutine holds one of the two locks while it waits for
\* or holds the other, and a handler holds no lock at the step that writes
\* its response.
C35_NoStuckHandler ==
    /\ [](\A p \in Procs :
             /\ ~(HoldsKv(p) /\ (WaitsK(p) \/ HoldsK(p)))
             /\ ~(HoldsK(p) /\ WaitsKv(p)))
    /\ [][\A p \in Procs :
             (InHandler(p) /\ pc'[p] = "idle") => (~HoldsKv(p) /\ ~HoldsK(p) /\ mu' = mu)]_vars
    /\ \A p \in Procs : InHandler(p) ~> (pc[p] = "idle")

\* a handler waits for the read lock of package constants that SetK holds,
\* while another handler holds the read lock of the store
C35_Witness ==
    \E p, q \in Procs :
        /\ WaitsK(p)
        /\ InHandler(p)
        /\ mu.kwriter = q
        /\ ~KRLockable(mu)

----------------------------------------------------------------------------
(* Properties of the key-value store under goroutines *)

\* goroutine p is at a read of the map, is inside a write of the map
Reading(p) == pc[p] \in {"get_read", "getall_read", "find_read"}
Writing(p) == pc[p] \in {"set_write", "set_store"}

\* C11: no goroutine is at a read of the store's map while a write to the
\* map is in progress, and every goroutine at an access to the map holds the
\* store's lock in the matching mode: readers the read lock, the writer the
\* write lock.
C11_ReaderWriterDiscipline ==
    /\ \A p, q \in Procs : ~(Reading(p) /\ pc[q] = "set_store")
    /\ \A p \in Procs : Reading(p) => p \in mu.readers
    /\ \A p \in Procs : Writing(p) => mu.writer = p

\* C12: GetAll returns every key a completed Set wrote, each with the value
\* of the last completed Set on it, and no other key, whatever Set, Get and
\* GetAll calls of other goroutines are under way.
C12_NoLostSet ==
    [][resp'.op = "GetAll"
       => /\ DOMAIN resp'.req.all = {a[1] : a \in accepted}
          /\ \A a \in accepted : resp'.req.all[a[1]] = a[2]]_vars

\* GetAll returned the keys of two goroutines while a Set is waiting for the
\* lock and a Get holds the read lock
C12_Witness ==
    /\ resp.op = "GetAll"
    /\ Cardinality(DOMAIN resp.req.all) >= 2
    /\ accepted # {}
    /\ \E p \in Procs : pc[p] \in {"set_lock", "get_read"}

----------------------------------------------------------------------------
(* Properties of joining *)

\* the contacts of the table, and those with a given id
Contacts(table) == {table[e[1]].Nodes[e[2]] : e \in Entries(table)}
EntriesOf(table, id) == {e \in Entries(table) : table[e[1]].Nodes[e[2]].ID = id}

\* the last call was a join that returned nil
Joined(r) == r.op = "Join" /\ r.kind = "returned"

\* C13: the second of two successive successful joins against the same
\* bootstrap peer leaves the routing table as the first left it, with the
\* bootstrap contact in it exactly once.
C13_JoinIdempotent ==
    [][(Joined(resp') /\ resp'.req.again)
       => /\ rt' = rt
          /\ Cardinality(EntriesOf(rt', resp'.req.reply.node_id)) = 1]_vars

\* a join was repeated and both calls returned nil
C13_Witness ==
    /\ Joined(resp)
    /\ resp.req.again
    /\ resp.req.sent
    /\ Cardinality(EntriesOf(rt, resp.req.reply.node_id)) = 1

\* the contact of a join: the id of the pong, ip and port parsed from the
\* bootstrap address
JoinContact(r) ==
    [ID |-> r.req.reply.node_id, IP |-> r.req.addr[1],
     Port |-> Atoi(CharsOf[r.req.addr[Len(r.req.addr)]]).val]

\* the routing table holds nothing
EmptyTable(table) == TotalContacts(table) = 0

\* C14 as stated: every successful join leaves in the routing table exactly
\* one contact with the id of the pong, and it has the ip and port parsed from
\* the bootstrap address; on a table that was empty, find_closest of that id
\* is exactly that contact.
C14_JoinInserts ==
    [][(Joined(resp') /\ Len(resp'.req.addr) = 3)
       => /\ Cardinality(EntriesOf(rt', JoinContact(resp').ID)) = 1
          /\ JoinContact(resp') \in Contacts(rt')
          /\ EmptyTable(rt) => FindClosestNodes(rt', JoinContact(resp').ID, kValue)
                                   = {<<JoinContact(resp')>>}]_vars

\* C14, amended: a successful join leaves exactly one contact with the id of
\* the pong; when the id was not in the table the contact is the one with the
\* ip and port parsed from the bootstrap address (and find_closest of the id
\* is exactly that contact if the table was empty); when the id was already
\* in the table, the table is unchanged and keeps the address it had.
C14_JoinInsertsUnlessKnown ==
    [][(Joined(resp') /\ Len(resp'.req.addr) = 3)
       => /\ Cardinality(EntriesOf(rt', JoinContact(resp').ID)) = 1
          /\ IF EntriesOf(rt, JoinContact(resp').ID) = {}
             THEN /\ JoinContact(resp') \in Contacts(rt')
                  /\ resp'.req.node = JoinContact(resp')
                  /\ TotalContacts(rt') = TotalContacts(rt) + (IF resp'.req.evicted = NoNode THEN 1 ELSE 0)
                  /\ EmptyTable(rt) => FindClosestNodes(rt', JoinContact(resp').ID, kValue)
                                           = {<<JoinContact(resp')>>}
             ELSE rt' = rt]_vars

\* a first join returned nil and its contact is the only one of the table
C14_Witness ==
    /\ Joined(resp)
    /\ ~resp.req.again
    /\ Contacts(rt) = {JoinContact(resp)}
    /\ JoinContact(resp) = [ID |-> MkID("a", "4"), IP |-> "127.0.0.1", Port |-> 8080]

\* a port text that is numeric and in 1..65535
ValidPort(port) == ~Atoi(port).err /\ Atoi(port).val >= 1 /\ Atoi(port).val <= MaxPort

\* host:port with a host, and a port that is numeric and in 1..65535
WellFormedAddr(addr) ==
    /\ Len(addr) = 3
    /\ addr[2] = ":"
    /\ addr[1] \notin {":", ""}
    /\ addr[3] \notin {":", ""}
    /\ ValidPort(CharsOf[addr[3]])

\* C15: a join with a bootstrap address that is not host:port with a port
\* that is present, numeric and in 1..65535 fails with an error, sends
\* nothing and leaves the routing table as it was.
C15_InvalidAddress ==
    [][(resp'.op = "Join" /\ ~WellFormedAddr(resp'.req.addr))
       => /\ resp'.kind = "error"
          /\ ~resp'.req.sent
          /\ rt' = rt]_vars

\* C16: a join whose ping ends in a transport error or in a status other
\* than 200 fails with an error and leaves the routing table as it was; a
\* join changes the routing table only after a 200 reply with a body that
\* parses and carries a node_id.
C16_UnreachableBootstrap ==
    [][resp'.op = "Join"
       => /\ (resp'.req.reply.err \/ resp'.req.reply.status # 200)
               => (resp'.kind = "error" /\ rt' = rt)
          /\ rt' # rt => /\ resp'.req.sent
                         /\ ~resp'.req.reply.err
                         /\ resp'.req.reply.status = 200
                         /\ resp'.req.reply.json
                         /\ resp'.req.reply.node_id # <<>>]_vars

\* a node that knows a contact sent the ping of a join and was answered with
\* status 500
C16_Witness ==
    /\ resp.op = "Join"
    /\ resp.req.sent
    /\ resp.req.reply.status = 500
    /\ resp.kind = "error"
    /\ ~EmptyTable(rt)

\* C17: a join whose pong has no body that parses, no node_id, an empty
\* node_id or a node_id that fails ValidateID fails with an error and leaves
\* the routing table as it was.
C17_MalformedResponse ==
    [][(/\ resp'.op = "Join"
        /\ resp'.req.sent
        /\ ~resp'.req.reply.err
        /\ resp'.req.reply.status = 200
        /\ \/ ~resp'.req.reply.json
           \/ ValidateIDOf(resp'.req.reply.node_id) # "ok")
       => /\ resp'.kind = "error"
          /\ rt' = rt]_vars

\* C36: every contact of the routing table, in every state reached through
\* PING and join, has an id that passes ValidateID and a port in 1..65535.
C36_ContactsWellFormed ==
    \A c \in Contacts(rt) :
        /\ ValidateID(c.ID) = "ok"
        /\ c.Port >= 1
        /\ c.Port <= MaxPort

\* C30: an add of a contact whose id is already in its bucket, made
\* directly, by a PING or by a join, leaves the whole routing table as it
\* was and drops nothing, also when the bucket is full and when the contact
\* carries another ip or port than the one the table holds.
C30_KnownIdNoOp ==
    [][(/\ resp'.op \in {"Add", "PING", "Join"}
        /\ resp'.kind # "panic"
        /\ resp'.req.node # NoNode
        /\ EntriesOf(rt, resp'.req.node.ID) # {})
       => /\ rt' = rt
          /\ resp'.req.evicted = NoNode]_vars

\* a PING re-added a known id with another address than the table holds for
\* it, to a bucket that is full
C30_Witness ==
    /\ resp.op = "PING"
    /\ resp.kind = "pong"
    /\ resp.req.node # NoNode
    /\ resp.req.node \notin Contacts(rt)
    /\ \E e \in EntriesOf(rt, resp.req.node.ID) : Len(rt[e[1]].Nodes) = rt[e[1]].MaxSize

\* C39: the GET a join sends carries neither id nor port, and neither the
\* serving of it nor the rest of the join changes the routing table or the
\* store of the bootstrap peer; only the routing table of the joiner changes.
C39_JoinOneDirectional ==
    [][(\/ resp'.op = "Join"
        \/ resp'.op = "PING" /\ resp'.req.remote = JoinerAddr)
       => /\ rt' = rt
          /\ kv' = kv
          /\ resp'.op = "PING" => (resp'.req.id = <<>> /\ resp'.req.port = <<>>)
          /\ (resp'.op = "Join" /\ resp'.kind = "returned")
                => resp'.nodes = <<[ID |-> LocalID, IP |-> "127.0.0.1", Port |-> 8080]>>]_vars

\* a join of a peer the node does not know returned nil, with the node as the
\* only contact of the joiner, while the node knows a contact and holds a value
C39_Witness ==
    /\ Joined(resp)
    /\ resp.req.sent
    /\ resp.nodes = <<selfNode>>
    /\ ~EmptyTable(rt)
    /\ kv # NewKeyValueStore
    /\ EntriesOf(rt, resp.req.id) = {}

----------------------------------------------------------------------------
(* Properties of PING *)

\* a PING with a valid self-identification from the peer at GoodAddr, other
\* than the local node
IdentifiedPing(r) ==
    /\ r.op = "PING"
    /\ ValidateIDOf(r.req.id) = "ok"
    /\ ValidPort(r.req.port)
    /\ r.req.id # LocalID
    /\ r.req.remote = GoodAddr

\* the contact of such a PING: its id, the ip of the transport peer, its port
PingContact(r) == [ID |-> r.req.id, IP |-> "10.0.0.2", Port |-> Atoi(r.req.port).val]

\* every result find_closest may give includes the contact
AmongClosest(table, c, k) ==
    \A s \in FindClosestNodes(table, c.ID, k) : \E i \in 1..Len(s) : s[i] = c

\* C18 as stated: a PING with a valid self-identification from a peer other
\* than the local node is answered with a pong and leaves the contact (id,
\* transport peer ip, port) in the routing table, and find_closest of the id
\* includes that contact.
C18_PingInserts ==
    [][IdentifiedPing(resp')
       => /\ resp'.kind = "pong"
          /\ resp'.status = 200
          /\ PingContact(resp') \in Contacts(rt')
          /\ AmongClosest(rt', PingContact(resp'), kValue)]_vars

\* C18, amended: such a PING is answered with a pong; when the id was not in
\* the routing table the contact (id, transport peer ip, port) is in it
\* afterwards and find_closest of the id includes it; when the id was already
\* in the routing table, the table is unchanged and find_closest of the id
\* includes the contact the table had for it.
C18_PingInsertsUnlessKnown ==
    [][IdentifiedPing(resp')
       => /\ resp'.kind = "pong"
          /\ resp'.status = 200
          /\ IF EntriesOf(rt, resp'.req.id) = {}
             THEN /\ PingContact(resp') \in Contacts(rt')
                  /\ AmongClosest(rt', PingContact(resp'), kValue)
             ELSE /\ rt' = rt
                  /\ \A c \in Contacts(rt) : c.ID = resp'.req.id => AmongClosest(rt', c, kValue)]_vars

\* a PING with a valid self-identification was answered with a pong by a
\* node that knew another contact, and its contact is in the table
C18_Witness ==
    /\ IdentifiedPing(resp)
    /\ resp.kind = "pong"
    /\ resp.req.node = PingContact(resp)
    /\ PingContact(resp) \in Contacts(rt)
    /\ TotalContacts(rt) >= 2

\* C19: a PING with neither id nor port is answered 200 with message "pong"
\* and the local id as node_id, and leaves the routing table and the store as
\* they were.
C19_AnonymousPing ==
    [][(resp'.op = "PING" /\ resp'.req.id = <<>> /\ resp'.req.port = <<>>)
       => /\ resp'.status = 200
          /\ resp'.kind = "pong"
          /\ resp'.text = "pong"
          /\ resp'.node_id = LocalID
          /\ rt' = rt
          /\ kv' = kv]_vars

\* an anonymous PING was answered by a node that knows contacts and holds a
\* value
C19_Witness ==
    /\ resp.op = "PING"
    /\ resp.req.id = <<>>
    /\ resp.req.port = <<>>
    /\ resp.status = 200
    /\ TotalContacts(rt) > 0
    /\ kv # NewKeyValueStore

\* C20: a PING that carries an id or a port but not both of them valid (one
\* of the two missing, an id failing ValidateID, a port that is not a number
\* in 1..65535) is answered 400 and leaves the routing table as it was.
C20_PingValidation ==
    [][(/\ resp'.op = "PING"
        /\ resp'.req.id # <<>> \/ resp'.req.port # <<>>
        /\ \/ resp'.req.id = <<>>
           \/ resp'.req.port = <<>>
           \/ ValidateIDOf(resp'.req.id) # "ok"
           \/ ~ValidPort(resp'.req.port))
       => /\ resp'.status = 400
          /\ rt' = rt]_vars

----------------------------------------------------------------------------
(* Properties of request sequences *)

\* C21: FIND_NODE and FIND_VALUE change neither the routing table nor the
\* store; STORE never changes the routing table and changes the store only
\* when it is accepted (201); PING never changes the store and changes the
\* routing table only when its self-identification is valid; a join never
\* changes the store.
C21_WriterDiscipline ==
    [][/\ resp'.op \in {"FIND_NODE", "FIND_VALUE"} => (rt' = rt /\ kv' = kv)
       /\ resp'.op = "STORE" => (rt' = rt /\ (kv' # kv => resp'.status = 201))
       /\ resp'.op = "PING"
             => /\ kv' = kv
                /\ rt' # rt => (ValidateIDOf(resp'.req.id) = "ok" /\ ValidPort(resp'.req.port))
       /\ resp'.op = "Join" => kv' = kv]_vars

\* the last call left every variable of the node as it was
NodeUnchanged == rt' = rt /\ kv' = kv /\ kValue' = kValue /\ started' = started

\* C22: FIND_NODE with a valid id is answered 200 with a result of
\* find_closest for that id; with a malformed id it is answered 400 with the
\* invalid-id error, with an absent id 400 with the missing-parameter error,
\* which differs from the former; in both error cases nothing changes.
C22_FindNodeErrors ==
    [][resp'.op = "FIND_NODE"
       => /\ NodeUnchanged
          /\ IF resp'.req.id = <<>>
             THEN resp'.status = 400 /\ resp'.text = "Missing 'id' parameter"
             ELSE IF ValidateIDOf(resp'.req.id) # "ok"
             THEN /\ resp'.status = 400
                  /\ resp'.text \in {InvalidIDFormat[e] : e \in DOMAIN InvalidIDFormat}
             ELSE /\ resp'.status = 200
                  /\ resp'.kind = "nodes"
                  /\ resp'.nodes \in FindClosestNodes(rt, resp'.req.id, kValue)]_vars

\* C23: a STORE with a method other than POST is answered 405; a POST with
\* a body that does not parse, an empty or missing key, an empty or missing
\* value, or a key that fails ValidateID is answered 400; in all these cases
\* neither the store nor the routing table changes.
C23_StoreValidation ==
    [][resp'.op = "STORE"
       => /\ resp'.req.method # "POST" => (resp'.status = 405 /\ NodeUnchanged)
          /\ (/\ resp'.req.method = "POST"
              /\ \/ ~resp'.req.json
                 \/ resp'.req.id = <<>>
                 \/ resp'.req.value = ""
                 \/ ValidateID(resp'.req.id) # "ok")
             => (resp'.status = 400 /\ NodeUnchanged)]_vars

\* a POST with a key that is not an id was answered 400 by a node that knows
\* a contact and holds a value
C23_Witness ==
    /\ resp.op = "STORE"
    /\ resp.req.method = "POST"
    /\ resp.req.id # <<>>
    /\ ValidateID(resp.req.id) # "ok"
    /\ resp.status = 400
    /\ ~EmptyTable(rt)
    /\ kv # NewKeyValueStore

C29_AlwaysResponds ==
    resp.op \in {"PING", "FIND_NODE", "STORE", "FIND_VALUE"}
    => /\ resp.kind # "panic"
       /\ resp.status \in {200, 201, 400, 405, 500}

----------------------------------------------------------------------------
(* Properties of ids spelled in two ways *)

\* C33: no two entries of the routing table have ids that pass ValidateID
\* and denote the same 160-bit value, also when the two strings differ only
\* in the case of their letters.
C33_BitwiseIdEquality ==
    \A e, f \in Entries(rt) :
        (/\ ValidateID(rt[e[1]].Nodes[e[2]].ID) = "ok"
         /\ ValidateID(rt[f[1]].Nodes[f[2]].ID) = "ok"
         /\ decodeHex(rt[e[1]].Nodes[e[2]].ID) = decodeHex(rt[f[1]].Nodes[f[2]].ID))
        => e = f

\* the byte of a character of an id
ByteOf ==
    ("0" :> 48) @@ ("1" :> 49) @@ ("2" :> 50) @@ ("3" :> 51) @@ ("4" :> 52) @@ ("5" :> 53) @@
    ("6" :> 54) @@ ("7" :> 55) @@ ("8" :> 56) @@ ("9" :> 57) @@
    ("A" :> 65) @@ ("B" :> 66) @@ ("C" :> 67) @@ ("D" :> 68) @@ ("E" :> 69) @@ ("F" :> 70) @@
    ("a" :> 97) @@ ("b" :> 98) @@ ("c" :> 99) @@ ("d" :> 100) @@ ("e" :> 101) @@ ("f" :> 102)

\* a comes before b in the lexicographic order of strings
LexLess(a, b) ==
    \/ /\ Len(a) < Len(b)
       /\ \A j \in 1..Len(a) : a[j] = b[j]
    \/ \E i \in 1..Min(Len(a), Len(b)) :
           /\ \A j \in 1..(i - 1) : a[j] = b[j]
           /\ ByteOf[a[i]] < ByteOf[b[i]]

\* C34: for every table and target find_closest has one result, in which
\* contacts at the same distance to the target stand in the lexicographic
\* order of their ids, so that a handler's response is a function of the
\* state of the node and the request.
C34_HandlerDeterminism ==
    started =>
        \A t \in AliasTargets :
            /\ Cardinality(FindClosestNodes(rt, t, kValue)) = 1
            /\ \A r \in FindClosestNodes(rt, t, kValue) : \A i \in 1..(Len(r) - 1) :
                   BigCmp(XORDistance(t, r[i].ID), XORDistance(t, r[i + 1].ID)) = 0
                   => LexLess(r[i].ID, r[i + 1].ID)

----------------------------------------------------------------------------
(* Properties of the functions on identifiers *)

\* every character of the string is a hexadecimal digit
AllHex(id) == \A i \in 1..Len(id) : id[i] \in (LowerHex \cup UpperHex \cup DecDigits)

\* C24 as stated, the length counted in characters: ValidateID succeeds
\* exactly when the string has 40 characters, all hexadecimal digits; it
\* fails with the length error when the number of characters is not 40 and
\* with the format error otherwise.
C24_ValidateByCharacters ==
    resp.op = "ValidateID"
    => resp.kind = (IF Len(resp.req.id) # HexLen THEN "invalid length"
                    ELSE IF AllHex(resp.req.id) THEN "ok" ELSE "invalid format")

\* C24, amended, the length counted in bytes: ValidateID succeeds exactly
\* when the string has 40 characters, all hexadecimal digits; it fails with
\* the length error when the string does not take 40 bytes and with the
\* format error otherwise.
C24_ValidateByBytes ==
    resp.op = "ValidateID"
    => /\ resp.kind = "ok" <=> (Len(resp.req.id) = HexLen /\ AllHex(resp.req.id))
       /\ resp.kind = "invalid length" <=> ByteLen(resp.req.id) # HexLen
       /\ resp.kind \in {"ok", "invalid length", "invalid format"}

\* a string of 40 bytes and 39 characters was refused for its format
C24_Witness ==
    /\ resp.op = "ValidateID"
    /\ Len(resp.req.id) = 39
    /\ ByteLen(resp.req.id) = HexLen
    /\ resp.kind = "invalid format"

\* the zero-based position of the most significant set bit of a magnitude
\* that is not zero
MsbIndex(d) == 8 * (Len(d) - 1) + (CHOOSE j \in 0..7 : 2^j <= d[1] /\ d[1] < 2^(j + 1))

\* C25: for valid ids a and b that are distinct 160-bit values, the bucket
\* index of their distance lies in 0..159, and adding b to a fresh routing
\* table with local id a leaves b in the bucket with that index and leaves
\* every other bucket empty.
C25_BucketIndexAgreement ==
    (/\ resp.op = "FreshAdd"
     /\ ValidateID(resp.req.id) = "ok"
     /\ ValidateID(resp.req.node.ID) = "ok"
     /\ decodeHex(resp.req.id) # decodeHex(resp.req.node.ID))
    => LET d == calculateXORDistance(resp.req.id, resp.req.node.ID)
       IN  /\ getBucketIndex(d) = MsbIndex(d)
           /\ MsbIndex(d) \in 0..(4 * HexLen - 1)
           /\ resp.kind = "returned"
           /\ DOMAIN rt = 0..(4 * HexLen - 1)
           /\ \A i \in DOMAIN rt :
                  rt[i].Nodes = IF i = MsbIndex(d) THEN <<resp.req.node>> ELSE <<>>

\* b was added to the fresh table of an a that differs from it in the last
\* bit only, and is in bucket 0
C25_Witness ==
    /\ resp.op = "FreshAdd"
    /\ resp.kind = "returned"
    /\ rt[0].Nodes = <<resp.req.node>>

\* C26: for valid ids a and b the distance from a to b is the distance from
\* b to a, and the distance from a to itself is zero.
C26_DistanceSymmetry ==
    (/\ resp.op = "Distance"
     /\ ValidateID(resp.req.id) = "ok"
     /\ ValidateID(resp.req.node.ID) = "ok")
    => /\ resp.nodes[1] = resp.nodes[2]
       /\ resp.nodes[3] = <<>>

\* the distance of two ids that differ in their first digit was computed
C26_Witness ==
    /\ resp.op = "Distance"
    /\ resp.req.id[1] = "a"
    /\ resp.req.node.ID[1] = "0"
    /\ resp.nodes[1] # <<>>
    /\ Len(resp.nodes[1]) = 20

----------------------------------------------------------------------------
(* Properties of the placement of contacts *)

\* the buckets the step changed
ChangedBuckets == {i \in DOMAIN rt : rt'[i] # rt[i]}

\* C37: every contact of bucket i has a distance to the local id whose most
\* significant set bit is bit i, the table has 160 buckets, and an add
\* changes at most the bucket its contact maps to and no capacity.
C37_BucketPlacement ==
    /\ [](started =>
            /\ DOMAIN rt = 0..(4 * HexLen - 1)
            /\ \A e \in Entries(rt) :
                   LET d == XORDistance(LocalID, rt[e[1]].Nodes[e[2]].ID)
                   IN  /\ d # Nil
                       /\ d # <<>>
                       /\ MsbIndex(d) = e[1])
    /\ [][(started /\ started' /\ rt' # rt)
          => /\ DOMAIN rt' = DOMAIN rt
             /\ resp'.op \in {"Add", "PING", "Join"}
             /\ \E c \in {MsbIndex(XORDistance(LocalID, resp'.req.node.ID))} :
                    /\ ChangedBuckets = {c}
                    /\ rt'[c].MaxSize = rt[c].MaxSize
                    /\ HasID(rt'[c].Nodes, resp'.req.node.ID)]_vars

\* an add evicted from one bucket while bucket 159 holds a contact too
C37_Witness ==
    /\ AddReturned(resp)
    /\ resp.req.evicted # NoNode
    /\ TargetBucket(resp.req.node.ID) = 2
    /\ Len(rt[2].Nodes) = 2
    /\ Len(rt[4 * HexLen - 1].Nodes) = 1

\* C38: the capacity of every bucket is the k of the moment the table was
\* built; a later SetK leaves the table and its capacities as they are, so a
\* bucket may hold more entries than the new k, and bounds the results of
\* find_closest, which never hold more than the current k contacts.
C38_CapacityFixedAtCreation ==
    /\ [][/\ resp'.op = "NewNode" => \A i \in DOMAIN rt' : rt'[i].MaxSize = kValue
          /\ resp'.op = "SetK" => (rt' = rt /\ kValue' = resp'.req.k)
          /\ (started /\ started' /\ rt' # rt)
                => \A i \in DOMAIN rt : rt'[i].MaxSize = rt[i].MaxSize]_vars
    /\ [](started =>
            /\ \A i \in DOMAIN rt : Len(rt[i].Nodes) <= rt[i].MaxSize
            /\ \A t \in Keys : \A r \in FindClosestNodes(rt, t, kValue) : Len(r) <= kValue)

\* after SetK(1) a bucket built with capacity 2 holds two entries, and
\* FIND_NODE answered one contact
C38_Witness ==
    /\ resp.op = "FIND_NODE"
    /\ resp.status = 200
    /\ kValue = 1
    /\ Len(resp.nodes) = 1
    /\ \E i \in DOMAIN rt : rt[i].MaxSize = 2 /\ Len(rt[i].Nodes) = 2

----------------------------------------------------------------------------
(* Properties of the key-value store by itself *)

\* C27: Get returns the value of the most recent Set on its key, and
\* absent if there was none, and changes nothing; a Set of a pair the store
\* already holds leaves the store as it is; a Set changes no other key, and
\* no key of the store is ever removed.
C27_StoreSemantics ==
    [][/\ resp'.op = "Get"
          => /\ kv' = kv
             /\ IF \E a \in accepted : a[1] = resp'.req.id
                THEN resp'.kind = "value" /\ <<resp'.req.id, resp'.text>> \in accepted
                ELSE resp'.kind = "missing"
       /\ resp'.op = "Set"
          => /\ resp'.req.id \in DOMAIN kv' /\ kv'[resp'.req.id] = resp'.req.value
             /\ (resp'.req.id \in DOMAIN kv /\ kv[resp'.req.id] = resp'.req.value) => kv' = kv
             /\ \A k \in DOMAIN kv' \ {resp'.req.id} : k \in DOMAIN kv /\ kv'[k] = kv[k]
       /\ \A k \in DOMAIN kv : k \in DOMAIN kv']_vars

\* Get returned the second value set on a key of a store with another key
C27_Witness ==
    /\ resp.op = "Get"
    /\ resp.kind = "value"
    /\ resp.text = "v2"
    /\ Cardinality(DOMAIN kv) >= 2
    /\ <<resp.req.id, "v2">> \in accepted

====
